---- MODULE Spec2Model ----
(***************************************************************************)
(* Colorwalk: the asynchronous enrichment pipeline of createPlace, the     *)
(* color-service functions it drives, the searchByColor request and the    *)
(* updatePlaceById and deletePlaceById requests that meet the pipeline, of *)
(* WanderMark (backend/controllers/places-controller.js,                   *)
(* backend/util/color-service.js, backend/models/place.js).                *)
(*                                                                         *)
(* One action is one synchronous run of JavaScript between two awaits, or  *)
(* one reply of an external collaborator (node-vibrant, OpenAI, MongoDB).  *)
(* Real numbers are fixed point: Lab values in 1/100 (rgbToLab rounds to   *)
(* two decimals, so this is exact), vector entries in 1/Scale, scores and  *)
(* thresholds in 1/1000.                                                   *)
(***************************************************************************)
EXTENDS Integers, Sequences, FiniteSets, TLC

VARIABLES
  store,       \* the Place collection: a function from the stored ids to documents
  createPc,    \* position of each createPlace request
  createResp,  \* HTTP status the creator received (0: nothing sent yet)
  newPlace,    \* the newPlace document captured by the setImmediate closure
  enrichPc,    \* position of each enrichment callback
  updates,     \* the `updates` object each enrichment callback built
  colorRes,    \* analyzeImageColor promise of each job (enrichment or search)
  textRes,     \* generateTextEmbedding promise of each job
  events,      \* per job: the observable events in the order they happened
  rejected,    \* the async functions whose promise rejected (nobody handles it)
  searchPc,    \* position of each searchByColor request
  query,       \* the parameters of each search request
  candidates,  \* the documents Place.find returned to each search request
  searchResp,  \* the response of each search request
  updatePc,    \* position of each updatePlaceById request
  updateBody,  \* its req.params.placeId, req.body and req.userData.userId
  updatedPlace, \* the document its Place.findById loaded, with the new values set
  updateResp   \* the HTTP status its caller received (0: nothing sent yet)

vars == <<store, createPc, createResp, newPlace, enrichPc, updates, colorRes, textRes,
          events, rejected, searchPc, query, candidates, searchResp,
          updatePc, updateBody, updatedPlace, updateResp>>

updateVars == <<updatePc, updateBody, updatedPlace, updateResp>>

(***************************************************************************)
(* Bounds                                                                  *)
(***************************************************************************)
MaxPlaces == 1      \* createPlace requests (each one creates its own place id)

Places   == 1..MaxPlaces
Searches == {101}                     \* the searchByColor request
Jobs     == Places \cup Searches
SeedIds  == {201, 202, 203, 204}      \* places already in the collection at start-up
PlaceIds == Places \cup SeedIds
DeleteIds == Places                   \* the places deletePlaceById is called for
Users    == {"u1", "u2"}

(***************************************************************************)
(* color-service.js: pure functions                                        *)
(***************************************************************************)
Scale == 100 * 100   \* vector entries are kept in 1/Scale

\* rgbToLab, in 1/100: the values the code computes (and rounds to 2 decimals)
\* for the colours that occur in the model's images.
rgbToLab(rgb) ==
  CASE rgb = <<255, 0, 0>>     -> <<5324, 8009, 6720>>
    [] rgb = <<0, 0, 255>>     -> <<3230, 7919, -10786>>
    [] rgb = <<0, 255, 0>>     -> <<8773, -8618, 8318>>
    [] rgb = <<128, 128, 130>> -> <<5364, 40, -108>>
    [] rgb = <<130, 128, 128>> -> <<5375, 75, 27>>
    [] rgb = <<120, 120, 120>> -> <<5043, 0, 0>>
    [] rgb = <<0, 0, 0>>       -> <<0, 0, 0>>
    [] rgb = <<255, 255, 255>> -> <<10000, 0, 0>>

VECTOR_SIZE == 5
GRAY_LAB == <<5000, 0, 0>>
MinPopulation == 10
MinStdDev == (8 * Scale) \div 100     \* 0.08

RECURSIVE SortByPopulation(_)
\* Array.prototype.sort((a, b) => b.population - a.population): stable, descending.
SortByPopulation(s) ==
  IF Len(s) <= 1 THEN s
  ELSE LET rest == SortByPopulation(Tail(s))
           x == Head(s)
           \* x came first, so it stays in front of the later elements it ties with
           before == SelectSeq(rest, LAMBDA y : y.population > x.population)
           after  == SelectSeq(rest, LAMBDA y : y.population <= x.population)
       IN before \o <<x>> \o after

\* Array.prototype.slice(0, n): a negative n counts from the end of the array.
Take(s, n) ==
  SubSeq(s, 1, IF n < 0 THEN (IF Len(s) + n < 0 THEN 0 ELSE Len(s) + n)
               ELSE IF Len(s) < n THEN Len(s) ELSE n)

NoSwatch == [hex |-> "", rgb |-> <<>>, population |-> -1]

\* Mutant of extractPalette: the slots are truncated in slot order, unsorted.
extractPalette_NoSort(palette) ==
  Take(SelectSeq(palette, LAMBDA s : s # NoSwatch), 5)

\* extractPalette after getPalette() resolved with the six slots of `palette`:
\* the swatch list, or <<>> for the null it returns when no slot is filled.
extractPalette(palette) ==
  Take(SortByPopulation(SelectSeq(palette, LAMBDA s : s # NoSwatch)), 5)

RECURSIVE Flatten(_)
Flatten(ss) == IF ss = <<>> THEN <<>> ELSE Head(ss) \o Flatten(Tail(ss))

\* Mutant of buildColorVector: the missing swatches are padded with zeros.
buildColorVector_ZeroPad(swatches) ==
  LET labValues == [i \in 1..Len(swatches) |-> rgbToLab(swatches[i].rgb)]
      norm(lab) == << (lab[1] * Scale) \div 10000,
                      ((lab[2] + 12800) * Scale) \div 25500,
                      ((lab[3] + 12800) * Scale) \div 25500 >>
  IN Flatten([i \in 1..VECTOR_SIZE |->
                IF i <= Len(labValues) THEN norm(labValues[i]) ELSE <<0, 0, 0>>])

\* Mutant of buildColorVector: no padding, one triple per swatch.
buildColorVector_NoPad(swatches) ==
  LET labValues == [i \in 1..Len(swatches) |-> rgbToLab(swatches[i].rgb)]
      norm(lab) == << (lab[1] * Scale) \div 10000,
                      ((lab[2] + 12800) * Scale) \div 25500,
                      ((lab[3] + 12800) * Scale) \div 25500 >>
  IN Flatten([i \in 1..Len(labValues) |-> norm(labValues[i])])

buildColorVector(swatches) ==
  LET labValues == [i \in 1..Len(swatches) |-> rgbToLab(swatches[i].rgb)]
      padded == labValues \o
                [i \in 1..(IF Len(labValues) < VECTOR_SIZE
                           THEN VECTOR_SIZE - Len(labValues) ELSE 0) |-> GRAY_LAB]
      norm(lab) == << (lab[1] * Scale) \div 10000,
                      ((lab[2] + 12800) * Scale) \div 25500,
                      ((lab[3] + 12800) * Scale) \div 25500 >>
  IN Flatten([i \in 1..VECTOR_SIZE |-> norm(padded[i])])

RECURSIVE SumSeq(_)
SumSeq(s) == IF s = <<>> THEN 0 ELSE Head(s) + SumSeq(Tail(s))

\* Mutant of checkIsColorful: the test of the number of swatches is missing.
checkIsColorful_NoCountCheck(swatches, colorVector) ==
  IF swatches[1].population < MinPopulation THEN FALSE
  ELSE LET mean == SumSeq(colorVector) \div Len(colorVector)
           variance == SumSeq([i \in 1..Len(colorVector) |->
                                 (colorVector[i] - mean) * (colorVector[i] - mean)])
                       \div Len(colorVector)
       IN variance >= MinStdDev * MinStdDev

checkIsColorful(swatches, colorVector) ==
  IF Len(swatches) < 2 THEN FALSE
  ELSE IF swatches[1].population < MinPopulation THEN FALSE
  ELSE LET mean == SumSeq(colorVector) \div Len(colorVector)
           variance == SumSeq([i \in 1..Len(colorVector) |->
                                 (colorVector[i] - mean) * (colorVector[i] - mean)])
                       \div Len(colorVector)
       IN variance >= MinStdDev * MinStdDev

\* The value of a settled analyzeImageColor promise; ok = FALSE is null.
NoColorData == [ok |-> FALSE, colorPalette |-> <<>>, colorVector |-> <<>>,
                isColorful |-> "null", colorAnalyzedAt |-> 0]

\* analyzeImageColor once extractPalette has returned `swatches`; t stands for
\* the new Date() of this call.
analyzeImageColor(swatches, t) ==
  IF swatches = <<>> THEN NoColorData
  ELSE LET colorVector == buildColorVector(swatches)
       IN [ok |-> TRUE,
           colorPalette |-> [i \in 1..Len(swatches) |->
                               [hex |-> swatches[i].hex,
                                rgb |-> swatches[i].rgb,
                                population |-> swatches[i].population,
                                lab |-> rgbToLab(swatches[i].rgb)]],
           colorVector |-> colorVector,
           isColorful |-> IF checkIsColorful(swatches, colorVector) THEN "true" ELSE "false",
           colorAnalyzedAt |-> t]

\* Mutant of adaptiveWeights: a muted image gets equal weights.
adaptiveWeights_MutedHalf(isColorful) ==
  IF isColorful = "true" THEN [colorWeight |-> 600, textWeight |-> 400]
  ELSE IF isColorful = "false" THEN [colorWeight |-> 500, textWeight |-> 500]
  ELSE [colorWeight |-> 0, textWeight |-> 1000]

\* Mutant of adaptiveWeights: the rows of true and false are exchanged.
adaptiveWeights_Swapped(isColorful) ==
  IF isColorful = "true" THEN [colorWeight |-> 200, textWeight |-> 800]
  ELSE IF isColorful = "false" THEN [colorWeight |-> 600, textWeight |-> 400]
  ELSE [colorWeight |-> 0, textWeight |-> 1000]

adaptiveWeights(isColorful) ==
  IF isColorful = "true" THEN [colorWeight |-> 600, textWeight |-> 400]
  ELSE IF isColorful = "false" THEN [colorWeight |-> 200, textWeight |-> 800]
  ELSE [colorWeight |-> 0, textWeight |-> 1000]

(***************************************************************************)
(* The external collaborators' possible replies                            *)
(***************************************************************************)
Sw(h, c, n) == [hex |-> h, rgb |-> c, population |-> n]

\* What getPalette() can resolve with: the six slots Vibrant, DarkVibrant,
\* LightVibrant, Muted, DarkMuted, LightMuted, some of them null.
PaletteRedBlue == <<Sw("#ff0000", <<255, 0, 0>>, 800), Sw("#0000ff", <<0, 0, 255>>, 200),
                    NoSwatch, NoSwatch, NoSwatch, NoSwatch>>
PaletteGray    == <<NoSwatch, NoSwatch, NoSwatch, Sw("#808082", <<128, 128, 130>>, 50),
                    NoSwatch, NoSwatch>>
PaletteEmpty   == <<NoSwatch, NoSwatch, NoSwatch, NoSwatch, NoSwatch, NoSwatch>>
Palettes == {PaletteRedBlue, PaletteGray, PaletteEmpty}

\* What openai.embeddings.create can resolve with (response.data[0].embedding).
Embeddings == {<<3, 4>>}

\* The value of a settled generateTextEmbedding promise; ok = FALSE is null.
NoTextData == [ok |-> FALSE, vector |-> <<>>]

\* A promise: not created, pending, settled with a value, or pending on a
\* collaborator that will never reply.
NoCall == [st |-> "none"]
Pending == [st |-> "pending"]
Hung == [st |-> "hung"]
Settled(v) == [st |-> "settled", value |-> v]

(***************************************************************************)
(* models/place.js and the Place collection                                *)
(***************************************************************************)
Titles == {"t1", "t2"}
\* The bodies of the createPlace requests: title and authenticated user.
Bodies == {[title |-> "t1", userId |-> "u1"]}

\* new Place({title, description, address, coordinates, image, creatorId}):
\* the Colorwalk fields take the schema's defaults ([] for arrays, null).
Place(id, title, creatorId) ==
  [id |-> id, title |-> title, description |-> "descr", address |-> "addr",
   coordinates |-> "coords", image |-> "image", creatorId |-> creatorId,
   colorPalette |-> <<>>, colorVector |-> <<>>, textEmbedding |-> <<>>,
   isColorful |-> "null", colorAnalyzedAt |-> 0]

NoPlace == Place(0, "", "")

FeatureFields == {"colorPalette", "colorVector", "isColorful", "colorAnalyzedAt",
                  "textEmbedding"}
CreationFields == {"title", "description", "address", "coordinates", "image",
                   "creatorId"}

\* The schema keeps hex, lab and population of a palette entry (strict mode
\* drops rgb).
CastPalette(palette) ==
  [i \in 1..Len(palette) |-> [hex |-> palette[i].hex, lab |-> palette[i].lab,
                              population |-> palette[i].population]]

\* Mutant of ApplySet: the update replaces the feature record as a whole, a
\* field that `upd` lacks falls back to the schema default.
ApplySet_Replace(doc, upd) ==
  [k \in DOMAIN doc |->
     IF k \in DOMAIN upd
     THEN (IF k = "colorPalette" THEN CastPalette(upd[k]) ELSE upd[k])
     ELSE IF k \in FeatureFields THEN NoPlace[k]
     ELSE doc[k]]

\* Mongoose turns Model.findByIdAndUpdate(id, upd) into {$set: upd}:
\* the keys of `upd` are replaced, every other field is kept; an id that
\* is not in the collection matches nothing.
ApplySet(doc, upd) ==
  [k \in DOMAIN doc |->
     IF k \in DOMAIN upd
     THEN (IF k = "colorPalette" THEN CastPalette(upd[k]) ELSE upd[k])
     ELSE doc[k]]

\* Mutant of findByIdAndUpdate: the update has an empty filter (updateMany)
\* and reaches every document.
findByIdAndUpdate_All(coll, id, upd) ==
  [i \in DOMAIN coll |-> ApplySet(coll[i], upd)]

\* Mutant of findByIdAndUpdate: the update is an upsert, an id that matches
\* nothing is inserted with the keys of `upd`.
findByIdAndUpdate_Upsert(coll, id, upd) ==
  IF id \in DOMAIN coll
  THEN [coll EXCEPT ![id] = ApplySet(coll[id], upd)]
  ELSE (id :> ApplySet(Place(id, "", ""), upd)) @@ coll

findByIdAndUpdate(coll, id, upd) ==
  IF id \in DOMAIN coll
  THEN [coll EXCEPT ![id] = ApplySet(coll[id], upd)]
  ELSE coll

\* Mutant of EnrichUpdates: a failed sub-extraction leaves its keys in the
\* object, with null values.
EnrichUpdates_Placeholders(colorValue, embeddingValue) ==
  [k \in FeatureFields |->
     IF k = "textEmbedding" THEN embeddingValue.vector ELSE colorValue[k]]

\* The `updates` object of the enrichment callback.
EnrichUpdates(colorValue, embeddingValue) ==
  LET colorKeys == IF colorValue.ok
                   THEN {"colorPalette", "colorVector", "isColorful", "colorAnalyzedAt"}
                   ELSE {}
      textKeys == IF embeddingValue.ok THEN {"textEmbedding"} ELSE {}
  IN [k \in colorKeys \cup textKeys |->
        IF k = "textEmbedding" THEN embeddingValue.vector ELSE colorValue[k]]

\* A place as an earlier enrichment left it.
Enriched(doc, palette, embedding) ==
  ApplySet(doc, EnrichUpdates(analyzeImageColor(extractPalette(palette), doc.id),
                              IF embedding = <<>> THEN NoTextData
                              ELSE [ok |-> TRUE, vector |-> embedding]))

\* The collection at start-up: places created earlier, with every outcome an
\* enrichment can leave (nothing, colour only, text only, both).
SeedStore ==
  (201 :> Place(201, "t1", "u1")) @@
  (202 :> Enriched(Place(202, "t1", "u1"), PaletteRedBlue, <<>>)) @@
  (203 :> Enriched(Place(203, "t2", "u2"), PaletteEmpty, <<3, 4>>)) @@
  (204 :> Enriched(Place(204, "t2", "u2"), PaletteGray, <<4, 3>>))

(***************************************************************************)
(* createPlace (places-controller.js)                                      *)
(***************************************************************************)
Log(job, evs) == [events EXCEPT ![job] = @ \o evs]

searchVars == <<searchPc, query, candidates, searchResp>>
callVars == <<colorRes, textRes>>

\* validationResult(req) has errors: next(HttpError 422).
CreateInvalid(p) ==
  /\ createPc[p] = "idle"
  /\ createPc' = [createPc EXCEPT ![p] = "done"]
  /\ createResp' = [createResp EXCEPT ![p] = 422]
  /\ UNCHANGED <<updateVars, store, newPlace, enrichPc, updates, events, rejected, callVars, searchVars>>

\* Valid input: read req.body and await getCoorsForAddress(address).
CreateStart(p, body) ==
  /\ createPc[p] = "idle"
  /\ createPc' = [createPc EXCEPT ![p] = "geocoding"]
  /\ newPlace' = [newPlace EXCEPT ![p] = Place(p, body.title, body.userId)]
  /\ UNCHANGED <<updateVars, store, createResp, enrichPc, updates, events, rejected, callVars, searchVars>>

\* getCoorsForAddress threw: next(error), the error handler answers with its code.
CreateGeocodeFail(p, code) ==
  /\ createPc[p] = "geocoding"
  /\ createPc' = [createPc EXCEPT ![p] = "done"]
  /\ createResp' = [createResp EXCEPT ![p] = code]
  /\ UNCHANGED <<updateVars, store, newPlace, enrichPc, updates, events, rejected, callVars, searchVars>>

\* Coordinates found: new Place({...}) and await User.findById.
CreateGeocodeOk(p) ==
  /\ createPc[p] = "geocoding"
  /\ createPc' = [createPc EXCEPT ![p] = "findingUser"]
  /\ UNCHANGED <<updateVars, store, createResp, newPlace, enrichPc, updates, events, rejected,
                 callVars, searchVars>>

\* User.findById threw (500) or found nobody (404).
CreateUserFail(p, code) ==
  /\ createPc[p] = "findingUser"
  /\ createPc' = [createPc EXCEPT ![p] = "done"]
  /\ createResp' = [createResp EXCEPT ![p] = code]
  /\ UNCHANGED <<updateVars, store, newPlace, enrichPc, updates, events, rejected, callVars, searchVars>>

\* The user exists: start the session and the transaction.
CreateUserOk(p) ==
  /\ createPc[p] = "findingUser"
  /\ createPc' = [createPc EXCEPT ![p] = "saving"]
  /\ UNCHANGED <<updateVars, store, createResp, newPlace, enrichPc, updates, events, rejected,
                 callVars, searchVars>>

\* What becomes of a request whose async handler rejected: Express 4 ignores
\* the returned promise and the request is never answered (0); Express 5
\* passes the rejection to the error handler, which answers 500 for an error
\* without a code. The repository does not pin the version.
RejectionOutcomes == {0, 500}

\* The transaction threw: the catch block reads `session`, which is declared
\* with const inside the try block, so the handler itself throws a
\* ReferenceError before it reaches next(...).
CreateSaveFail(p, resp) ==
  /\ createPc[p] = "saving"
  /\ createPc' = [createPc EXCEPT ![p] = "done"]
  /\ rejected' = rejected \cup {<<"createPlace", p>>}
  /\ createResp' = [createResp EXCEPT ![p] = resp]
  /\ UNCHANGED <<updateVars, store, newPlace, enrichPc, updates, events, callVars, searchVars>>

\* Mutant of CreateCommitted: the pipeline is started inline, ahead of res.json.
CreateCommitted_PipelineFirst(p) ==
  /\ createPc[p] = "saving"
  /\ createPc' = [createPc EXCEPT ![p] = "done"]
  /\ store' = (p :> newPlace[p]) @@ store
  /\ createResp' = [createResp EXCEPT ![p] = 201]
  /\ enrichPc' = [enrichPc EXCEPT ![p] = "awaiting"]
  /\ colorRes' = [colorRes EXCEPT ![p] = Pending]
  /\ textRes' = [textRes EXCEPT ![p] = Pending]
  /\ events' = [events EXCEPT ![p] = @ \o <<"colorStart", "textStart", "response">>]
  /\ UNCHANGED <<updateVars, newPlace, updates, rejected, searchPc, query, candidates, searchResp>>

\* The transaction committed: res.status(201).json, then setImmediate(callback).
CreateCommitted(p) ==
  /\ createPc[p] = "saving"
  /\ createPc' = [createPc EXCEPT ![p] = "done"]
  /\ store' = (p :> newPlace[p]) @@ store
  /\ createResp' = [createResp EXCEPT ![p] = 201]
  /\ enrichPc' = [enrichPc EXCEPT ![p] = "scheduled"]
  /\ events' = Log(p, <<"response", "setImmediate">>)
  /\ UNCHANGED <<updateVars, newPlace, updates, rejected, callVars, searchVars>>

(***************************************************************************)
(* The setImmediate callback of createPlace                                *)
(***************************************************************************)
\* generateTextEmbedding: the input text is empty only if all three parts are.
InputTextEmpty(title, description, address) ==
  title = "" /\ address = "" /\ description = ""

\* The callback runs: analyzeImageColor(...) runs up to its await of
\* getPalette(), generateTextEmbedding(...) up to its await of
\* embeddings.create(), then the callback awaits Promise.allSettled.
EnrichStart(p) ==
  /\ enrichPc[p] = "scheduled"
  /\ enrichPc' = [enrichPc EXCEPT ![p] = "awaiting"]
  /\ colorRes' = [colorRes EXCEPT ![p] = Pending]
  /\ textRes' = [textRes EXCEPT ![p] =
        IF InputTextEmpty(newPlace[p].title, newPlace[p].description, newPlace[p].address)
        THEN Settled(NoTextData) ELSE Pending]
  /\ events' = Log(p, <<"colorStart", "textStart">>)
  /\ UNCHANGED <<updateVars, store, createPc, createResp, newPlace, updates, rejected, searchVars>>

Settles(res) == res.st = "settled"

\* Mutant of EnrichJoin: Promise.all in place of Promise.allSettled and
\* extractions that reject: the first failure ends the wait, nothing is written.
EnrichJoin_ShortCircuit(p) ==
  /\ enrichPc[p] = "awaiting"
  /\ \/ Settles(colorRes[p]) /\ ~colorRes[p].value.ok
     \/ Settles(textRes[p]) /\ ~textRes[p].value.ok
     \/ Settles(colorRes[p]) /\ Settles(textRes[p])
  /\ IF Settles(colorRes[p]) /\ Settles(textRes[p])
        /\ colorRes[p].value.ok /\ textRes[p].value.ok
     THEN /\ updates' = [updates EXCEPT ![p] =
                           EnrichUpdates(colorRes[p].value, textRes[p].value)]
          /\ enrichPc' = [enrichPc EXCEPT ![p] = "writing"]
     ELSE /\ enrichPc' = [enrichPc EXCEPT ![p] = "done"]
          /\ UNCHANGED updates
  /\ events' = Log(p, <<"join">>)
  /\ UNCHANGED <<updateVars, store, createPc, createResp, newPlace, rejected, callVars, searchVars>>

\* Promise.allSettled resolved: build `updates`; await findByIdAndUpdate if it
\* has a key, else the callback ends.
EnrichJoin(p) ==
  /\ enrichPc[p] = "awaiting"
  /\ Settles(colorRes[p]) /\ Settles(textRes[p])
  /\ LET upd == EnrichUpdates(colorRes[p].value, textRes[p].value)
     IN /\ updates' = [updates EXCEPT ![p] = upd]
        /\ enrichPc' = [enrichPc EXCEPT ![p] =
                          IF DOMAIN upd # {} THEN "writing" ELSE "done"]
  /\ events' = Log(p, <<"join">>)
  /\ UNCHANGED <<updateVars, store, createPc, createResp, newPlace, rejected, callVars, searchVars>>

\* Mutant of EnrichWrite: the callback saves its own copy of the document
\* (newPlace with the updates set) over the stored one.
EnrichWrite_SaveCopy(p) ==
  /\ enrichPc[p] = "writing"
  /\ enrichPc' = [enrichPc EXCEPT ![p] = "done"]
  /\ store' = IF newPlace[p].id \in DOMAIN store
              THEN [store EXCEPT ![newPlace[p].id] = ApplySet(newPlace[p], updates[p])]
              ELSE store
  /\ events' = Log(p, <<"write">>)
  /\ UNCHANGED <<updateVars, createPc, createResp, newPlace, updates, rejected, callVars, searchVars>>

\* MongoDB executed the update.
EnrichWrite(p) ==
  /\ enrichPc[p] = "writing"
  /\ enrichPc' = [enrichPc EXCEPT ![p] = "done"]
  /\ store' = findByIdAndUpdate(store, newPlace[p].id, updates[p])
  /\ events' = Log(p, <<"write">>)
  /\ UNCHANGED <<updateVars, createPc, createResp, newPlace, updates, rejected, callVars, searchVars>>

\* Mutant of EnrichWriteFail: the failed attempt is scheduled again.
EnrichWriteFail_Retry(p) ==
  /\ enrichPc[p] = "writing"
  /\ enrichPc' = [enrichPc EXCEPT ![p] = "scheduled"]
  /\ events' = Log(p, <<"dbErr">>)
  /\ UNCHANGED <<updateVars, store, createPc, createResp, newPlace, updates, rejected, callVars,
                 searchVars>>

\* Mutant of EnrichWriteFail: no try/catch around the await, the callback rejects.
EnrichWriteFail_Uncaught(p) ==
  /\ enrichPc[p] = "writing"
  /\ enrichPc' = [enrichPc EXCEPT ![p] = "done"]
  /\ rejected' = rejected \cup {<<"enrichment", p>>}
  /\ events' = Log(p, <<"dbErr">>)
  /\ UNCHANGED <<updateVars, store, createPc, createResp, newPlace, updates, callVars, searchVars>>

\* findByIdAndUpdate threw: caught and logged.
EnrichWriteFail(p) ==
  /\ enrichPc[p] = "writing"
  /\ enrichPc' = [enrichPc EXCEPT ![p] = "done"]
  /\ events' = Log(p, <<"dbErr">>)
  /\ UNCHANGED <<updateVars, store, createPc, createResp, newPlace, updates, rejected, callVars,
                 searchVars>>

(***************************************************************************)
(* The external calls of analyzeImageColor and generateTextEmbedding       *)
(***************************************************************************)
\* getPalette() resolved: the rest of extractPalette and of analyzeImageColor.
\* The date of the analysis is named after the job that ran it.
PaletteReply(j, palette) ==
  /\ colorRes[j] = Pending
  /\ colorRes' = [colorRes EXCEPT ![j] =
                    Settled(analyzeImageColor(extractPalette(palette), j))]
  /\ UNCHANGED <<updateVars, store, createPc, createResp, newPlace, enrichPc, updates, textRes, events,
                 rejected, searchVars>>

\* getPalette() threw: extractPalette catches and returns null.
PaletteError(j) ==
  /\ colorRes[j] = Pending
  /\ colorRes' = [colorRes EXCEPT ![j] = Settled(NoColorData)]
  /\ UNCHANGED <<updateVars, store, createPc, createResp, newPlace, enrichPc, updates, textRes, events,
                 rejected, searchVars>>

\* The image host never answers; nothing in extractPalette bounds the wait.
PaletteHang(j) ==
  /\ colorRes[j] = Pending
  /\ colorRes' = [colorRes EXCEPT ![j] = Hung]
  /\ UNCHANGED <<updateVars, store, createPc, createResp, newPlace, enrichPc, updates, textRes, events,
                 rejected, searchVars>>

\* embeddings.create resolved.
EmbeddingReply(j, vector) ==
  /\ textRes[j] = Pending
  /\ textRes' = [textRes EXCEPT ![j] = Settled([ok |-> TRUE, vector |-> vector])]
  /\ UNCHANGED <<updateVars, store, createPc, createResp, newPlace, enrichPc, updates, colorRes, events,
                 rejected, searchVars>>

\* embeddings.create threw: caught, null.
EmbeddingError(j) ==
  /\ textRes[j] = Pending
  /\ textRes' = [textRes EXCEPT ![j] = Settled(NoTextData)]
  /\ UNCHANGED <<updateVars, store, createPc, createResp, newPlace, enrichPc, updates, colorRes, events,
                 rejected, searchVars>>

\* The embedding service never answers; generateTextEmbedding sets no timeout.
EmbeddingHang(j) ==
  /\ textRes[j] = Pending
  /\ textRes' = [textRes EXCEPT ![j] = Hung]
  /\ UNCHANGED <<updateVars, store, createPc, createResp, newPlace, enrichPc, updates, colorRes, events,
                 rejected, searchVars>>

(***************************************************************************)
(* cosineSimilarity and the scoring of searchByColor                       *)
(***************************************************************************)
RECURSIVE ISqrtIn(_, _, _)
\* The largest r in lo..hi with r * r <= n.
ISqrtIn(n, lo, hi) ==
  IF lo >= hi THEN lo
  ELSE LET mid == (lo + hi + 1) \div 2
       IN IF mid * mid <= n THEN ISqrtIn(n, mid, hi) ELSE ISqrtIn(n, lo, mid - 1)

ISqrt(n) == ISqrtIn(n, 0, 46340)

Dot(a, b) == SumSeq([i \in 1..Len(a) |-> a[i] * b[i]])

\* Mutant of cosineSimilarity: the dot product is not divided by the magnitudes.
cosineSimilarity_DotOnly(vecA, vecB) ==
  IF vecA = <<>> \/ vecB = <<>> \/ Len(vecA) # Len(vecB) THEN 0
  ELSE LET dot == Dot(vecA, vecB)
           magA == ISqrt(Dot(vecA, vecA))
           magB == ISqrt(Dot(vecB, vecB))
       IN IF magA = 0 \/ magB = 0 THEN 0 ELSE dot * 1000

\* cosineSimilarity in 1/1000; an absent vector is <<>>.
cosineSimilarity(vecA, vecB) ==
  IF vecA = <<>> \/ vecB = <<>> \/ Len(vecA) # Len(vecB) THEN 0
  ELSE LET dot == Dot(vecA, vecB)
           magA == ISqrt(Dot(vecA, vecA))
           magB == ISqrt(Dot(vecB, vecB))
       IN IF magA = 0 \/ magB = 0 THEN 0
          ELSE IF dot < 2000000 /\ dot > -2000000
               THEN (dot * 1000) \div (magA * magB)
               ELSE dot \div ((magA * magB) \div 1000)

\* Mutant of ScoreCandidate: a component that is missing on one side counts
\* as a full match instead of 0.
ScoreCandidate_MissingIsMatch(place, queryColorData, queryTextEmbedding, w) ==
  LET useColor == w.colorWeight > 0 /\ queryColorData.ok
                    /\ Len(place.colorVector) > 0
      useText == w.textWeight > 0 /\ queryTextEmbedding.ok
                   /\ Len(place.textEmbedding) > 0
      color == IF useColor
               THEN cosineSimilarity(queryColorData.colorVector, place.colorVector)
               ELSE 1000
      text == IF useText
              THEN cosineSimilarity(queryTextEmbedding.vector, place.textEmbedding)
              ELSE 1000
  IN [place |-> place,
      score |-> w.colorWeight * color + w.textWeight * text,
      components |-> [color |-> color, text |-> text]]

\* Mutant of ScoreCandidate: the weights are chosen by the candidate's own
\* isColorful.
ScoreCandidate_CandidateWeights(place, queryColorData, queryTextEmbedding, w) ==
  LET pw == adaptiveWeights(place.isColorful)
      useColor == pw.colorWeight > 0 /\ queryColorData.ok
                    /\ Len(place.colorVector) > 0
      useText == pw.textWeight > 0 /\ queryTextEmbedding.ok
                   /\ Len(place.textEmbedding) > 0
      color == IF useColor
               THEN cosineSimilarity(queryColorData.colorVector, place.colorVector) ELSE 0
      text == IF useText
              THEN cosineSimilarity(queryTextEmbedding.vector, place.textEmbedding) ELSE 0
  IN [place |-> place,
      score |-> pw.colorWeight * color + pw.textWeight * text,
      components |-> [color |-> color, text |-> text]]

\* The map callback of step 4: score in 1/1000000, components in 1/1000.
ScoreCandidate(place, queryColorData, queryTextEmbedding, w) ==
  LET useColor == w.colorWeight > 0 /\ queryColorData.ok
                    /\ Len(place.colorVector) > 0
      useText == w.textWeight > 0 /\ queryTextEmbedding.ok
                   /\ Len(place.textEmbedding) > 0
      color == IF useColor
               THEN cosineSimilarity(queryColorData.colorVector, place.colorVector) ELSE 0
      text == IF useText
              THEN cosineSimilarity(queryTextEmbedding.vector, place.textEmbedding) ELSE 0
  IN [place |-> place,
      score |-> w.colorWeight * color + w.textWeight * text,
      components |-> [color |-> color, text |-> text]]

RECURSIVE SortByScore_Unstable(_)
\* Mutant of SortByScore: elements of equal score come out in reverse order.
SortByScore_Unstable(s) ==
  IF Len(s) <= 1 THEN s
  ELSE LET rest == SortByScore_Unstable(Tail(s))
           x == Head(s)
           before == SelectSeq(rest, LAMBDA y : y.score >= x.score)
           after  == SelectSeq(rest, LAMBDA y : y.score < x.score)
       IN before \o <<x>> \o after

RECURSIVE SortByScore(_)
\* Array.prototype.sort((a, b) => b.score - a.score): stable, descending.
SortByScore(s) ==
  IF Len(s) <= 1 THEN s
  ELSE LET rest == SortByScore(Tail(s))
           x == Head(s)
           before == SelectSeq(rest, LAMBDA y : y.score > x.score)
           after  == SelectSeq(rest, LAMBDA y : y.score <= x.score)
       IN before \o <<x>> \o after

\* Mutant of MatchesFilter: the $or on the two vectors is missing.
MatchesFilter_NoVectorTest(doc, userId) ==
  userId # "" => doc.creatorId = userId

\* The filter of Place.find: a non-empty colorVector or a non-empty
\* textEmbedding, and the creator when userId is given.
MatchesFilter(doc, userId) ==
  /\ (doc.colorVector # <<>> \/ doc.textEmbedding # <<>>)
  /\ (userId # "" => doc.creatorId = userId)

RECURSIVE SeqOfSet(_)
\* The documents of a set of ids, in id order (the collection's natural order).
SeqOfSet(ids) ==
  IF ids = {} THEN <<>>
  ELSE LET m == CHOOSE x \in ids : \A y \in ids : x <= y
       IN <<m>> \o SeqOfSet(ids \ {m})

PlaceFind(coll, userId) ==
  LET ids == SeqOfSet({id \in DOMAIN coll : MatchesFilter(coll[id], userId)})
  IN [i \in 1..Len(ids) |-> coll[ids[i]]]

\* Math.round(x * 1000) / 1000 of a value kept in 1/1000000, in 1/1000.
Round3(x) == (x + 500) \div 1000

\* Mutant of FormatResult: the two `delete` statements are missing.
FormatResult_KeepVectors(sc, w) ==
  [id |-> sc.place.id, title |-> sc.place.title, description |-> sc.place.description,
   address |-> sc.place.address, image |-> sc.place.image,
   coordinates |-> sc.place.coordinates, colorPalette |-> sc.place.colorPalette,
   colorVector |-> sc.place.colorVector, textEmbedding |-> sc.place.textEmbedding,
   isColorful |-> sc.place.isColorful, creatorId |-> sc.place.creatorId,
   similarityScore |-> Round3(sc.score),
   scoreBreakdown |-> [color |-> sc.components.color, text |-> sc.components.text,
                       weights |-> w]]

\* Step 5: one entry of `results`.
FormatResult(sc, w) ==
  [id |-> sc.place.id, title |-> sc.place.title, description |-> sc.place.description,
   address |-> sc.place.address, image |-> sc.place.image,
   coordinates |-> sc.place.coordinates, colorPalette |-> sc.place.colorPalette,
   isColorful |-> sc.place.isColorful, creatorId |-> sc.place.creatorId,
   similarityScore |-> Round3(sc.score),
   scoreBreakdown |-> [color |-> sc.components.color, text |-> sc.components.text,
                       weights |-> w]]

\* Mutant of SearchResults: a score equal to the threshold is dropped too.
SearchResults_StrictThreshold(cands, queryColorData, queryTextEmbedding, w, threshold, limit) ==
  LET scoredAll == [i \in 1..Len(cands) |->
                      ScoreCandidate(cands[i], queryColorData, queryTextEmbedding, w)]
      kept == SelectSeq(scoredAll, LAMBDA x : x.score > threshold * 1000)
      scored == Take(SortByScore(kept), limit)
  IN [i \in 1..Len(scored) |-> FormatResult(scored[i], w)]

\* Steps 4 and 5 for the fetched candidates.
SearchResults(cands, queryColorData, queryTextEmbedding, w, threshold, limit) ==
  LET scoredAll == [i \in 1..Len(cands) |->
                      ScoreCandidate(cands[i], queryColorData, queryTextEmbedding, w)]
      kept == SelectSeq(scoredAll, LAMBDA x : x.score >= threshold * 1000)
      scored == Take(SortByScore(kept), limit)
  IN [i \in 1..Len(scored) |-> FormatResult(scored[i], w)]

NoMeta == [total |-> 0, queryIsColorful |-> "null",
           weightsUsed |-> adaptiveWeights("null"), queryPalette |-> <<>>]
NoResponse == [code |-> 0, results |-> <<>>, meta |-> NoMeta]

(***************************************************************************)
(* searchByColor                                                           *)
(***************************************************************************)
\* The search requests: req.body.queryText and req.query (userId, threshold
\* and limit; the defaults are 0.4 and 10).
Queries ==
  {[queryText |-> "q", userId |-> "",   threshold |-> 400, limit |-> 10],
   [queryText |-> "",  userId |-> "",   threshold |-> 0,   limit |-> 10],
   [queryText |-> "q", userId |-> "u1", threshold |-> 0,   limit |-> 1],
   [queryText |-> "",  userId |-> "u2", threshold |-> 400, limit |-> 1]}
NoQuery == [queryText |-> "", userId |-> "", threshold |-> 400, limit |-> 10]

createVars == <<createPc, createResp, newPlace, enrichPc, updates>>

\* The request arrives: both extractions are started, then Promise.allSettled
\* is awaited. Without queryText the second promise is Promise.resolve(null).
SearchStart(s, q) ==
  /\ searchPc[s] = "idle"
  /\ searchPc' = [searchPc EXCEPT ![s] = "awaiting"]
  /\ query' = [query EXCEPT ![s] = q]
  /\ colorRes' = [colorRes EXCEPT ![s] = Pending]
  /\ textRes' = [textRes EXCEPT ![s] =
        IF q.queryText = "" THEN Settled(NoTextData)
        ELSE IF InputTextEmpty(q.queryText, "", "") THEN Settled(NoTextData)
        ELSE Pending]
  /\ events' = Log(s, IF q.queryText = "" THEN <<"colorStart">>
                      ELSE <<"colorStart", "textStart">>)
  /\ UNCHANGED <<updateVars, store, createVars, rejected, candidates, searchResp>>

\* Mutant of SearchJoin: the check for "no signal at all" is missing.
SearchJoin_NoSignalCheck(s) ==
  /\ searchPc[s] = "awaiting"
  /\ Settles(colorRes[s]) /\ Settles(textRes[s])
  /\ searchPc' = [searchPc EXCEPT ![s] = "fetching"]
  /\ events' = Log(s, <<"join">>)
  /\ UNCHANGED <<updateVars, store, createVars, rejected, callVars, query, candidates, searchResp>>

\* Promise.allSettled resolved: 422 without any signal, else await Place.find.
SearchJoin(s) ==
  /\ searchPc[s] = "awaiting"
  /\ Settles(colorRes[s]) /\ Settles(textRes[s])
  /\ IF ~colorRes[s].value.ok /\ ~textRes[s].value.ok
     THEN /\ searchPc' = [searchPc EXCEPT ![s] = "done"]
          /\ searchResp' = [searchResp EXCEPT ![s] = [NoResponse EXCEPT !.code = 422]]
     ELSE /\ searchPc' = [searchPc EXCEPT ![s] = "fetching"]
          /\ UNCHANGED searchResp
  /\ events' = Log(s, <<"join">>)
  /\ UNCHANGED <<updateVars, store, createVars, rejected, callVars, query, candidates>>

\* Mutant of SearchFetch: the query's features are saved as a document of the
\* collection before the response is sent.
SearchFetch_PersistQuery(s) ==
  /\ searchPc[s] = "fetching"
  /\ LET q == query[s]
         queryColorData == colorRes[s].value
         w == adaptiveWeights(queryColorData.isColorful)
         cands == PlaceFind(store, q.userId)
         results == SearchResults(cands, queryColorData, textRes[s].value, w,
                                  q.threshold, q.limit)
     IN /\ candidates' = [candidates EXCEPT ![s] = cands]
        /\ searchResp' = [searchResp EXCEPT ![s] =
             [code |-> 200, results |-> results,
              meta |-> [total |-> Len(results),
                        queryIsColorful |-> queryColorData.isColorful,
                        weightsUsed |-> w,
                        queryPalette |-> [i \in 1..Len(queryColorData.colorPalette) |->
                                            queryColorData.colorPalette[i].hex]]]]
        /\ store' = (s :> ApplySet(Place(s, q.queryText, q.userId),
                                   EnrichUpdates(queryColorData, textRes[s].value)))
                    @@ store
  /\ searchPc' = [searchPc EXCEPT ![s] = "done"]
  /\ events' = Log(s, <<"find">>)
  /\ UNCHANGED <<updateVars, createVars, rejected, callVars, query>>

\* Place.find resolved: score, filter, sort, slice, format, res.json.
SearchFetch(s) ==
  /\ searchPc[s] = "fetching"
  /\ LET q == query[s]
         queryColorData == colorRes[s].value
         w == adaptiveWeights(queryColorData.isColorful)
         cands == PlaceFind(store, q.userId)
         results == SearchResults(cands, queryColorData, textRes[s].value, w,
                                  q.threshold, q.limit)
     IN /\ candidates' = [candidates EXCEPT ![s] = cands]
        /\ searchResp' = [searchResp EXCEPT ![s] =
             [code |-> 200, results |-> results,
              meta |-> [total |-> Len(results),
                        queryIsColorful |-> queryColorData.isColorful,
                        weightsUsed |-> w,
                        queryPalette |-> [i \in 1..Len(queryColorData.colorPalette) |->
                                            queryColorData.colorPalette[i].hex]]]]
  /\ searchPc' = [searchPc EXCEPT ![s] = "done"]
  /\ events' = Log(s, <<"find">>)
  /\ UNCHANGED <<updateVars, store, createVars, rejected, callVars, query>>

\* Place.find threw: next(HttpError 500).
SearchFetchFail(s) ==
  /\ searchPc[s] = "fetching"
  /\ searchPc' = [searchPc EXCEPT ![s] = "done"]
  /\ searchResp' = [searchResp EXCEPT ![s] = [NoResponse EXCEPT !.code = 500]]
  /\ events' = Log(s, <<"findErr">>)
  /\ UNCHANGED <<updateVars, store, createVars, rejected, callVars, query, candidates>>

(***************************************************************************)
(* deletePlaceById                                                         *)
(***************************************************************************)
\* The transaction of deletePlaceById committed for a stored place.
DeletePlace(id) ==
  /\ id \in DOMAIN store
  /\ store' = [i \in DOMAIN store \ {id} |-> store[i]]
  /\ UNCHANGED <<updateVars, createVars, callVars, events, rejected, searchVars>>

(***************************************************************************)
(* updatePlaceById                                                         *)
(***************************************************************************)
enrichVars == <<createPc, createResp, newPlace, enrichPc, updates, events>>

\* validationResult(req) has errors: the handler throws inside the async
\* function (no next), its promise rejects.
UpdateInvalid(u, resp) ==
  /\ updatePc[u] = "idle"
  /\ updatePc' = [updatePc EXCEPT ![u] = "done"]
  /\ rejected' = rejected \cup {<<"updatePlaceById", u>>}
  /\ updateResp' = [updateResp EXCEPT ![u] = resp]
  /\ UNCHANGED <<store, enrichVars, callVars, searchVars, updateBody, updatedPlace>>

\* Valid input: read the parameters and await Place.findById(placeId).
UpdateStart(u, body) ==
  /\ updatePc[u] = "idle"
  /\ updatePc' = [updatePc EXCEPT ![u] = "finding"]
  /\ updateBody' = [updateBody EXCEPT ![u] = body]
  /\ UNCHANGED <<store, enrichVars, callVars, rejected, searchVars, updatedPlace, updateResp>>

\* Place.findById threw: next(HttpError 500).
UpdateFindFail(u) ==
  /\ updatePc[u] = "finding"
  /\ updatePc' = [updatePc EXCEPT ![u] = "done"]
  /\ updateResp' = [updateResp EXCEPT ![u] = 500]
  /\ UNCHANGED <<store, enrichVars, callVars, rejected, searchVars, updateBody, updatedPlace>>

\* Place.findById resolved. With null, `updatedPlace.creatorId` throws a
\* TypeError and the handler rejects; a place of another creator is answered
\* with 401; else title and description are set on the loaded document and
\* save() is awaited.
UpdateFound(u, resp) ==
  /\ updatePc[u] = "finding"
  /\ LET body == updateBody[u]
     IN IF body.placeId \notin DOMAIN store
        THEN /\ updatePc' = [updatePc EXCEPT ![u] = "done"]
             /\ rejected' = rejected \cup {<<"updatePlaceById", u>>}
             /\ updateResp' = [updateResp EXCEPT ![u] = resp]
             /\ UNCHANGED updatedPlace
        ELSE IF store[body.placeId].creatorId # body.userId
        THEN /\ updatePc' = [updatePc EXCEPT ![u] = "done"]
             /\ updateResp' = [updateResp EXCEPT ![u] = 401]
             /\ UNCHANGED <<rejected, updatedPlace>>
        ELSE /\ updatePc' = [updatePc EXCEPT ![u] = "saving"]
             /\ updatedPlace' = [updatedPlace EXCEPT ![u] =
                  [store[body.placeId] EXCEPT !.title = body.title,
                                              !.description = body.description]]
             /\ UNCHANGED <<rejected, updateResp>>
  /\ UNCHANGED <<store, enrichVars, callVars, searchVars, updateBody>>

\* Mutant of UpdateSave: save() writes the whole loaded document back.
UpdateSave_WholeDocument(u) ==
  /\ updatePc[u] = "saving"
  /\ updateBody[u].placeId \in DOMAIN store
  /\ store' = [store EXCEPT ![updateBody[u].placeId] = updatedPlace[u]]
  /\ updatePc' = [updatePc EXCEPT ![u] = "done"]
  /\ updateResp' = [updateResp EXCEPT ![u] = 200]
  /\ UNCHANGED <<enrichVars, callVars, rejected, searchVars, updateBody, updatedPlace>>

\* save() of a loaded document sends {$set: ...} of the paths that were
\* assigned, here title and description, for the document's _id; then
\* res.status(200).json.
UpdateSave(u) ==
  /\ updatePc[u] = "saving"
  /\ updateBody[u].placeId \in DOMAIN store
  /\ store' = [store EXCEPT ![updateBody[u].placeId] =
                 ApplySet(@, [title |-> updatedPlace[u].title,
                              description |-> updatedPlace[u].description])]
  /\ updatePc' = [updatePc EXCEPT ![u] = "done"]
  /\ updateResp' = [updateResp EXCEPT ![u] = 200]
  /\ UNCHANGED <<enrichVars, callVars, rejected, searchVars, updateBody, updatedPlace>>

\* save() threw (the database failed, or the document is gone):
\* next(HttpError 500).
UpdateSaveFail(u) ==
  /\ updatePc[u] = "saving"
  /\ updatePc' = [updatePc EXCEPT ![u] = "done"]
  /\ updateResp' = [updateResp EXCEPT ![u] = 500]
  /\ UNCHANGED <<store, enrichVars, callVars, rejected, searchVars, updateBody, updatedPlace>>

(***************************************************************************)
(* The system                                                              *)
(***************************************************************************)
Init ==
  /\ store = SeedStore
  /\ createPc = [p \in Places |-> "idle"]
  /\ createResp = [p \in Places |-> 0]
  /\ newPlace = [p \in Places |-> NoPlace]
  /\ enrichPc = [p \in Places |-> "none"]
  /\ updates = [p \in Places |-> <<>>]
  /\ colorRes = [j \in Jobs |-> NoCall]
  /\ textRes = [j \in Jobs |-> NoCall]
  /\ events = [j \in Jobs |-> <<>>]
  /\ rejected = {}
  /\ searchPc = [s \in Searches |-> "idle"]
  /\ query = [s \in Searches |-> NoQuery]
  /\ candidates = [s \in Searches |-> <<>>]
  /\ searchResp = [s \in Searches |-> NoResponse]
  /\ updatePc = <<>> /\ updateBody = <<>> /\ updatedPlace = <<>> /\ updateResp = <<>>

Next ==
  \/ \E p \in Places : CreateInvalid(p)
  \/ \E p \in Places, body \in Bodies : CreateStart(p, body)
  \/ \E p \in Places, code \in {404, 500} : CreateGeocodeFail(p, code)
  \/ \E p \in Places : CreateGeocodeOk(p)
  \/ \E p \in Places, code \in {404, 500} : CreateUserFail(p, code)
  \/ \E p \in Places : CreateUserOk(p)
  \/ \E p \in Places, resp \in RejectionOutcomes : CreateSaveFail(p, resp)
  \/ \E p \in Places : CreateCommitted(p)
  \/ \E p \in Places : EnrichStart(p)
  \/ \E p \in Places : EnrichJoin(p)
  \/ \E p \in Places : EnrichWrite(p)
  \/ \E p \in Places : EnrichWriteFail(p)
  \/ \E j \in Jobs, palette \in Palettes : PaletteReply(j, palette)
  \/ \E j \in Jobs : PaletteError(j)
  \/ \E j \in Jobs, vector \in Embeddings : EmbeddingReply(j, vector)
  \/ \E j \in Jobs : EmbeddingError(j)
  \/ \E s \in Searches, q \in Queries : SearchStart(s, q)
  \/ \E s \in Searches : SearchJoin(s)
  \/ \E s \in Searches : SearchFetch(s)
  \/ \E s \in Searches : SearchFetchFail(s)
  \/ \E id \in DeleteIds : DeletePlace(id)

Spec == Init /\ [][Next]_vars

(***************************************************************************)
(* Further attempts for a place that an earlier attempt enriched           *)
(*                                                                         *)
(* createPlace schedules its callback once, so the collection never holds  *)
(* features of a place when its callback writes. The merge rules are about *)
(* a callback that runs again: here place 205, enriched before with the    *)
(* gray palette and the embedding <<4, 3>>, has MaxAttempts callbacks       *)
(* scheduled, each holding the document as it was created.                 *)
(***************************************************************************)
MaxAttempts == 2
Attempts == 1..MaxAttempts
RetryPlace == Place(205, "t1", "u1")
RetryId == RetryPlace.id

InitRetry ==
  /\ store = (RetryId :> Enriched(RetryPlace, PaletteGray, <<4, 3>>)) @@ SeedStore
  /\ createPc = [a \in Attempts |-> "done"]
  /\ createResp = [a \in Attempts |-> 201]
  /\ newPlace = [a \in Attempts |-> RetryPlace]
  /\ enrichPc = [a \in Attempts |-> "scheduled"]
  /\ updates = [a \in Attempts |-> <<>>]
  /\ colorRes = [j \in Attempts \cup Searches |-> NoCall]
  /\ textRes = [j \in Attempts \cup Searches |-> NoCall]
  /\ events = [j \in Attempts \cup Searches |->
                 IF j \in Attempts THEN <<"response", "setImmediate">> ELSE <<>>]
  /\ rejected = {}
  /\ searchPc = [s \in Searches |-> "idle"]
  /\ query = [s \in Searches |-> NoQuery]
  /\ candidates = [s \in Searches |-> <<>>]
  /\ searchResp = [s \in Searches |-> NoResponse]
  /\ updatePc = <<>> /\ updateBody = <<>> /\ updatedPlace = <<>> /\ updateResp = <<>>

NextRetry ==
  \/ \E a \in Attempts : EnrichStart(a)
  \/ \E a \in Attempts : EnrichJoin(a)
  \/ \E a \in Attempts : EnrichWrite(a)
  \/ \E a \in Attempts : EnrichWriteFail(a)
  \/ \E a \in Attempts, palette \in Palettes : PaletteReply(a, palette)
  \/ \E a \in Attempts : PaletteError(a)
  \/ \E a \in Attempts, vector \in Embeddings : EmbeddingReply(a, vector)
  \/ \E a \in Attempts : EmbeddingError(a)

SpecRetry == InitRetry /\ [][NextRetry]_vars

\* The same system when a collaborator may also never reply.
NextHang ==
  \/ Next
  \/ \E j \in Jobs : PaletteHang(j)
  \/ \E j \in Jobs : EmbeddingHang(j)

SpecHang == Init /\ [][NextHang]_vars

(***************************************************************************)
(* searchByColor on its own: two concurrent requests, with the query        *)
(* parameters and the stored candidates drawn from larger sets              *)
(***************************************************************************)
SearchJobs == {101, 102}

\* Further places of the collection: 206 has the features of 202 (equal
\* scores), 207 has a text embedding that points away from <<3, 4>>.
ExtraSeeds ==
  (206 :> Enriched(Place(206, "t1", "u1"), PaletteRedBlue, <<>>)) @@
  (207 :> Enriched(Place(207, "t2", "u2"), PaletteEmpty, <<3, -4>>))

SearchStores ==
  {[id \in SeedIds \cup extra |->
      IF id \in SeedIds THEN SeedStore[id] ELSE ExtraSeeds[id]] :
   extra \in SUBSET (DOMAIN ExtraSeeds)}

\* req.query of the requests: thresholds above every score, equal to a
\* score (0.96) and below zero, and a limit of -1, besides Queries.
SearchQueries ==
  Queries \cup
  {[queryText |-> "",  userId |-> "", threshold |-> 900,   limit |-> 10],
   [queryText |-> "q", userId |-> "", threshold |-> 960,   limit |-> 10],
   [queryText |-> "q", userId |-> "", threshold |-> -1000, limit |-> 10],
   [queryText |-> "q", userId |-> "", threshold |-> 0,     limit |-> -1]}

InitSearch ==
  /\ store \in SearchStores
  /\ createPc = [p \in Places |-> "idle"]
  /\ createResp = [p \in Places |-> 0]
  /\ newPlace = [p \in Places |-> NoPlace]
  /\ enrichPc = [p \in Places |-> "none"]
  /\ updates = [p \in Places |-> <<>>]
  /\ colorRes = [j \in SearchJobs |-> NoCall]
  /\ textRes = [j \in SearchJobs |-> NoCall]
  /\ events = [j \in SearchJobs |-> <<>>]
  /\ rejected = {}
  /\ searchPc = [s \in SearchJobs |-> "idle"]
  /\ query = [s \in SearchJobs |-> NoQuery]
  /\ candidates = [s \in SearchJobs |-> <<>>]
  /\ searchResp = [s \in SearchJobs |-> NoResponse]
  /\ updatePc = <<>> /\ updateBody = <<>> /\ updatedPlace = <<>> /\ updateResp = <<>>

NextSearch ==
  \/ \E s \in SearchJobs, q \in SearchQueries : SearchStart(s, q)
  \/ \E s \in SearchJobs, palette \in Palettes : PaletteReply(s, palette)
  \/ \E s \in SearchJobs : PaletteError(s)
  \/ \E s \in SearchJobs, vector \in Embeddings : EmbeddingReply(s, vector)
  \/ \E s \in SearchJobs : EmbeddingError(s)
  \/ \E s \in SearchJobs : SearchJoin(s)
  \/ \E s \in SearchJobs : SearchFetch(s)
  \/ \E s \in SearchJobs : SearchFetchFail(s)

SpecSearch == InitSearch /\ [][NextSearch]_vars

(***************************************************************************)
(* analyzeImageColor on its own: the callbacks of two created places whose *)
(* images are drawn from a larger set; what getPalette() resolves with is   *)
(* a function of the image                                                  *)
(***************************************************************************)
ColorJobs == {301, 302}

Images == {"empty", "gray1", "red1", "redblue", "faint", "grays2", "rgb3", "five",
           "six", "sixtie", "rank"}

\* The six slots node-vibrant finds in each image: no swatch at all, a single
\* swatch (near-gray, vivid), two swatches (distinct, with low populations,
\* near-gray), three out of order, five with ties, six, six with equal
\* populations, two with the population 10.
Vibrant(image) ==
  CASE image = "empty"   -> PaletteEmpty
    [] image = "gray1"   -> PaletteGray
    [] image = "red1"    -> <<Sw("#ff0000", <<255, 0, 0>>, 900), NoSwatch, NoSwatch,
                             NoSwatch, NoSwatch, NoSwatch>>
    [] image = "redblue" -> PaletteRedBlue
    [] image = "faint"   -> <<Sw("#ff0000", <<255, 0, 0>>, 9), Sw("#0000ff", <<0, 0, 255>>, 5),
                             NoSwatch, NoSwatch, NoSwatch, NoSwatch>>
    [] image = "grays2"  -> <<NoSwatch, Sw("#808082", <<128, 128, 130>>, 500), NoSwatch,
                             Sw("#828080", <<130, 128, 128>>, 400), NoSwatch, NoSwatch>>
    [] image = "rgb3"    -> <<Sw("#ff0000", <<255, 0, 0>>, 100), NoSwatch,
                             Sw("#0000ff", <<0, 0, 255>>, 300),
                             Sw("#00ff00", <<0, 255, 0>>, 200), NoSwatch, NoSwatch>>
    [] image = "five"    -> <<Sw("#ff0000", <<255, 0, 0>>, 40), Sw("#0000ff", <<0, 0, 255>>, 70),
                             NoSwatch, Sw("#00ff00", <<0, 255, 0>>, 40),
                             Sw("#000000", <<0, 0, 0>>, 10),
                             Sw("#ffffff", <<255, 255, 255>>, 70)>>
    [] image = "six"     -> <<Sw("#ff0000", <<255, 0, 0>>, 300), Sw("#0000ff", <<0, 0, 255>>, 100),
                             Sw("#00ff00", <<0, 255, 0>>, 600),
                             Sw("#787878", <<120, 120, 120>>, 50),
                             Sw("#000000", <<0, 0, 0>>, 200),
                             Sw("#ffffff", <<255, 255, 255>>, 400)>>
    [] image = "sixtie"  -> <<Sw("#ff0000", <<255, 0, 0>>, 5), Sw("#0000ff", <<0, 0, 255>>, 5),
                             Sw("#00ff00", <<0, 255, 0>>, 5),
                             Sw("#787878", <<120, 120, 120>>, 5),
                             Sw("#000000", <<0, 0, 0>>, 5),
                             Sw("#ffffff", <<255, 255, 255>>, 5)>>
    [] image = "rank"    -> <<Sw("#ff0000", <<255, 0, 0>>, 10), Sw("#0000ff", <<0, 0, 255>>, 10),
                             NoSwatch, NoSwatch, NoSwatch, NoSwatch>>

\* The document createPlace stored for job j, with req.file.path = image.
PlaceOfImage(j, image) == [Place(j, "t1", "u1") EXCEPT !.image = image]

InitColor ==
  /\ newPlace \in [ColorJobs -> {PlaceOfImage(j, image) : j \in ColorJobs, image \in Images}]
  /\ \A j \in ColorJobs : newPlace[j].id = j
  /\ store = [j \in ColorJobs |-> newPlace[j]]
  /\ createPc = [j \in ColorJobs |-> "done"]
  /\ createResp = [j \in ColorJobs |-> 201]
  /\ enrichPc = [j \in ColorJobs |-> "scheduled"]
  /\ updates = [j \in ColorJobs |-> <<>>]
  /\ colorRes = [j \in ColorJobs |-> NoCall]
  /\ textRes = [j \in ColorJobs |-> NoCall]
  /\ events = [j \in ColorJobs |-> <<"response", "setImmediate">>]
  /\ rejected = {}
  /\ searchPc = [s \in Searches |-> "idle"]
  /\ query = [s \in Searches |-> NoQuery]
  /\ candidates = [s \in Searches |-> <<>>]
  /\ searchResp = [s \in Searches |-> NoResponse]
  /\ updatePc = <<>> /\ updateBody = <<>> /\ updatedPlace = <<>> /\ updateResp = <<>>

NextColor ==
  \/ \E j \in ColorJobs : EnrichStart(j)
  \/ \E j \in ColorJobs : PaletteReply(j, Vibrant(newPlace[j].image))
  \/ \E j \in ColorJobs : PaletteError(j)
  \/ \E j \in ColorJobs, vector \in Embeddings : EmbeddingReply(j, vector)
  \/ \E j \in ColorJobs : EmbeddingError(j)
  \/ \E j \in ColorJobs : EnrichJoin(j)
  \/ \E j \in ColorJobs : EnrichWrite(j)
  \/ \E j \in ColorJobs : EnrichWriteFail(j)

SpecColor == InitColor /\ [][NextColor]_vars

(***************************************************************************)
(* cosineSimilarity inside searchByColor: one request against a single      *)
(* stored place, the vectors of both sides drawn from larger sets. All      *)
(* text vectors have an integer magnitude, so the fixed-point cosine is     *)
(* the exact one rounded down to 1/1000.                                    *)
(***************************************************************************)
\* Embeddings the query may get: besides <<3, 4>> its opposite, a zero
\* vector and a vector of another length.
QueryVectors == {<<3, 4>>, <<-3, -4>>, <<0, 0>>, <<1, 2, 2>>}

\* Embeddings of the stored place; <<>> is none.
StoredVectors == {<<>>, <<3, 4>>, <<4, 3>>, <<-3, -4>>, <<0, 0>>, <<2, 3, 6>>}

CosineStores ==
  {(211 :> Enriched(Place(211, "t1", "u1"), palette, embedding)) :
     palette \in Palettes, embedding \in StoredVectors}

\* req.query of the request: every scored candidate is returned.
CosineQuery == [queryText |-> "q", userId |-> "", threshold |-> -1000, limit |-> 10]

InitCosine ==
  /\ store \in CosineStores
  /\ createPc = [p \in Places |-> "idle"]
  /\ createResp = [p \in Places |-> 0]
  /\ newPlace = [p \in Places |-> NoPlace]
  /\ enrichPc = [p \in Places |-> "none"]
  /\ updates = [p \in Places |-> <<>>]
  /\ colorRes = [j \in Searches |-> NoCall]
  /\ textRes = [j \in Searches |-> NoCall]
  /\ events = [j \in Searches |-> <<>>]
  /\ rejected = {}
  /\ searchPc = [s \in Searches |-> "idle"]
  /\ query = [s \in Searches |-> NoQuery]
  /\ candidates = [s \in Searches |-> <<>>]
  /\ searchResp = [s \in Searches |-> NoResponse]
  /\ updatePc = <<>> /\ updateBody = <<>> /\ updatedPlace = <<>> /\ updateResp = <<>>

NextCosine ==
  \/ \E s \in Searches : SearchStart(s, CosineQuery)
  \/ \E s \in Searches, palette \in Palettes : PaletteReply(s, palette)
  \/ \E s \in Searches : PaletteError(s)
  \/ \E s \in Searches, vector \in QueryVectors : EmbeddingReply(s, vector)
  \/ \E s \in Searches : EmbeddingError(s)
  \/ \E s \in Searches : SearchJoin(s)
  \/ \E s \in Searches : SearchFetch(s)
  \/ \E s \in Searches : SearchFetchFail(s)

SpecCosine == InitCosine /\ [][NextCosine]_vars

(***************************************************************************)
(* updatePlaceById beside the enrichment of the same place: place 205 was  *)
(* created (201 sent, callback scheduled) and its creator, or somebody     *)
(* else, sends a PATCH for it or for a place that does not exist; the      *)
(* place may be deleted at any time.                                       *)
(***************************************************************************)
UpdateReqs == {501}
EnrichJob == 1

UpdateBodies ==
  {[placeId |-> RetryId, title |-> "t2", description |-> "descr2", userId |-> "u1"],
   [placeId |-> RetryId, title |-> "t1", description |-> "descr2", userId |-> "u1"],
   [placeId |-> RetryId, title |-> "t2", description |-> "descr2", userId |-> "u2"],
   [placeId |-> 299,     title |-> "t2", description |-> "descr2", userId |-> "u1"]}
NoBody == [placeId |-> 0, title |-> "", description |-> "", userId |-> ""]

InitUpdate ==
  /\ store = (RetryId :> RetryPlace) @@ SeedStore
  /\ createPc = [a \in {EnrichJob} |-> "done"]
  /\ createResp = [a \in {EnrichJob} |-> 201]
  /\ newPlace = [a \in {EnrichJob} |-> RetryPlace]
  /\ enrichPc = [a \in {EnrichJob} |-> "scheduled"]
  /\ updates = [a \in {EnrichJob} |-> <<>>]
  /\ colorRes = [j \in {EnrichJob} |-> NoCall]
  /\ textRes = [j \in {EnrichJob} |-> NoCall]
  /\ events = [j \in {EnrichJob} |-> <<"response", "setImmediate">>]
  /\ rejected = {}
  /\ searchPc = <<>> /\ query = <<>> /\ candidates = <<>> /\ searchResp = <<>>
  /\ updatePc = [u \in UpdateReqs |-> "idle"]
  /\ updateBody = [u \in UpdateReqs |-> NoBody]
  /\ updatedPlace = [u \in UpdateReqs |-> NoPlace]
  /\ updateResp = [u \in UpdateReqs |-> 0]

NextUpdate ==
  \/ EnrichStart(EnrichJob)
  \/ EnrichJoin(EnrichJob)
  \/ EnrichWrite(EnrichJob)
  \/ EnrichWriteFail(EnrichJob)
  \/ \E palette \in Palettes : PaletteReply(EnrichJob, palette)
  \/ PaletteError(EnrichJob)
  \/ \E vector \in Embeddings : EmbeddingReply(EnrichJob, vector)
  \/ EmbeddingError(EnrichJob)
  \/ \E u \in UpdateReqs, resp \in RejectionOutcomes : UpdateInvalid(u, resp)
  \/ \E u \in UpdateReqs, body \in UpdateBodies : UpdateStart(u, body)
  \/ \E u \in UpdateReqs : UpdateFindFail(u)
  \/ \E u \in UpdateReqs, resp \in RejectionOutcomes : UpdateFound(u, resp)
  \/ \E u \in UpdateReqs : UpdateSave(u)
  \/ \E u \in UpdateReqs : UpdateSaveFail(u)
  \/ DeletePlace(RetryId)

SpecUpdate == InitUpdate /\ [][NextUpdate]_vars

(***************************************************************************)
(* Claims                                                                  *)
(***************************************************************************)
Occurs(log, e) == \E i \in 1..Len(log) : log[i] = e
Count(log, e) == Cardinality({i \in 1..Len(log) : log[i] = e})
FirstIndex(log, e) == CHOOSE i \in 1..Len(log) : log[i] = e /\ \A k \in 1..(i - 1) : log[k] # e

ExtractionEvents == {"colorStart", "textStart", "join", "write", "dbErr"}

\* C1: for every created place the 201 response is sent before the background
\* extraction begins: every event of the enrichment callback (the start of
\* analyzeImageColor and of generateTextEmbedding, the join, the write) comes
\* after the response in the order of events, and a started extraction
\* implies that the creator already holds the 201.
C1_ResponseBeforeExtraction ==
  \A p \in Places :
    /\ \A i \in 1..Len(events[p]) :
         events[p][i] \in ExtractionEvents =>
           \E k \in 1..(i - 1) : events[p][k] = "response"
    /\ (colorRes[p] # NoCall \/ textRes[p] # NoCall \/ enrichPc[p] \notin {"none", "scheduled"})
         => createResp[p] = 201

C1_Witness ==
  \E p \in Places :
    /\ enrichPc[p] = "done" /\ Occurs(events[p], "write")
    /\ FirstIndex(events[p], "response") < FirstIndex(events[p], "colorStart")

\* C2: a createPlace that commits and answers 201 schedules its enrichment
\* exactly once, and the enrichment starts each sub-extraction at most once
\* (exactly once when it has run) and writes at most once; no outcome, a
\* failed write included, starts it again.
C2_ExactlyOneAttempt ==
  \A p \in Places :
    /\ (createResp[p] = 201) = (Count(events[p], "setImmediate") = 1)
    /\ Count(events[p], "setImmediate") <= 1
    /\ Count(events[p], "colorStart") <= 1 /\ Count(events[p], "textStart") <= 1
    /\ Count(events[p], "join") <= 1
    /\ Count(events[p], "write") + Count(events[p], "dbErr") <= 1
    /\ enrichPc[p] \in {"awaiting", "writing", "done"} =>
         Count(events[p], "colorStart") = 1 /\ Count(events[p], "textStart") = 1
    /\ (createResp[p] = 201) = (enrichPc[p] # "none")

C2_Witness ==
  \E p \in Places :
    /\ enrichPc[p] = "done" /\ Occurs(events[p], "dbErr")
    /\ Count(events[p], "colorStart") = 1 /\ Count(events[p], "textStart") = 1

Joined(j) == Occurs(events[j], "join")

\* A step of the enrichment callback of p or of one of its two extractions.
EnrichmentStep(p) ==
  /\ enrichPc[p] \in {"scheduled", "awaiting", "writing"}
  /\ \/ enrichPc'[p] # enrichPc[p]
     \/ colorRes'[p] # colorRes[p]
     \/ textRes'[p] # textRes[p]

\* C3: whatever the background enrichment does (either extraction failing,
\* both failing, the write failing), the creator keeps the 201 already sent,
\* no place leaves the collection, the creation fields of every stored place
\* stay as they were, and no promise rejects (nothing reaches the caller or
\* the error handler).
C3_FailuresAbsorbed ==
  [][\A p \in Places :
       EnrichmentStep(p) =>
         /\ createResp[p] = 201 /\ createResp'[p] = 201
         /\ rejected' = rejected
         /\ DOMAIN store' = DOMAIN store
         /\ \A id \in DOMAIN store :
              \A f \in CreationFields \cup {"id"} : store'[id][f] = store[id][f]]_vars

C3_Witness ==
  \E p \in Places :
    /\ enrichPc[p] = "done" /\ Occurs(events[p], "dbErr") /\ ~colorRes[p].value.ok
    /\ createResp[p] = 201 /\ <<"enrichment", p>> \notin rejected
    /\ p \in DOMAIN store /\ store[p].title = newPlace[p].title

\* C4: in the enrichment and in the search the two sub-extractions start in
\* the same step, the pipeline goes on only when both have settled, and a
\* result that succeeded is used whatever became of the other one: the
\* enrichment's updates carry it, the search does not answer 422.
C4_StartTogetherJoinAll ==
  /\ \A j \in Jobs :
       /\ (colorRes[j] = NoCall) = (textRes[j] = NoCall)
       /\ Joined(j) => Settles(colorRes[j]) /\ Settles(textRes[j])
  /\ \A p \in Places :
       /\ enrichPc[p] \in {"writing", "done"} => Joined(p)
       /\ Joined(p) =>
            /\ colorRes[p].value.ok =>
                 /\ "colorVector" \in DOMAIN updates[p]
                 /\ updates[p]["colorVector"] = colorRes[p].value.colorVector
            /\ textRes[p].value.ok =>
                 /\ "textEmbedding" \in DOMAIN updates[p]
                 /\ updates[p]["textEmbedding"] = textRes[p].value.vector
  /\ \A s \in Searches :
       /\ searchPc[s] \in {"fetching", "done"} => Joined(s)
       /\ (Joined(s) /\ (colorRes[s].value.ok \/ textRes[s].value.ok)) =>
            searchResp[s].code # 422

C4_Witness ==
  /\ \E p \in Places :
       Joined(p) /\ colorRes[p].value.ok /\ ~textRes[p].value.ok
         /\ "colorVector" \in DOMAIN updates[p]
  /\ \E s \in Searches :
       Joined(s) /\ ~colorRes[s].value.ok /\ textRes[s].value.ok
         /\ searchResp[s].code = 200

ColorKeys == {"colorPalette", "colorVector", "isColorful", "colorAnalyzedAt"}

\* C5: the object an enrichment writes has exactly the keys of the
\* sub-extractions that succeeded (the four colour keys, textEmbedding), each
\* with the extracted value; a failed one contributes no key; a write is
\* issued iff the object has a key; after the write the stored place has the
\* written values and its other feature fields are as created.
C5_ExactlySuccessfulFields ==
  \A p \in Places :
    /\ ~Joined(p) => DOMAIN updates[p] = {} /\ enrichPc[p] \notin {"writing", "done"}
    /\ Joined(p) =>
         /\ DOMAIN updates[p] = (IF colorRes[p].value.ok THEN ColorKeys ELSE {})
                                  \cup (IF textRes[p].value.ok THEN {"textEmbedding"} ELSE {})
         /\ \A k \in DOMAIN updates[p] \cap ColorKeys :
              updates[p][k] = colorRes[p].value[k]
         /\ "textEmbedding" \in DOMAIN updates[p] =>
              updates[p]["textEmbedding"] = textRes[p].value.vector
         /\ (enrichPc[p] = "writing" \/ Occurs(events[p], "write")
               \/ Occurs(events[p], "dbErr")) = (DOMAIN updates[p] # {})
    /\ (Occurs(events[p], "write") /\ p \in DOMAIN store) =>
         /\ store[p].colorVector = (IF colorRes[p].value.ok
                                     THEN colorRes[p].value.colorVector ELSE <<>>)
         /\ store[p].isColorful = colorRes[p].value.isColorful
         /\ store[p].colorAnalyzedAt = colorRes[p].value.colorAnalyzedAt
         /\ Len(store[p].colorPalette) = Len(colorRes[p].value.colorPalette)
         /\ store[p].textEmbedding = (IF textRes[p].value.ok
                                       THEN textRes[p].value.vector ELSE <<>>)

C5_Witness ==
  \E p \in Places :
    /\ Occurs(events[p], "write") /\ p \in DOMAIN store
    /\ ~colorRes[p].value.ok /\ textRes[p].value.ok
    /\ DOMAIN updates[p] = {"textEmbedding"}
    /\ store[p].isColorful = "null" /\ store[p].colorVector = <<>>

\* The step in which the update of attempt a is applied to the collection.
WriteStep(a) == ~Occurs(events[a], "write") /\ Occurs(events'[a], "write")

\* C6: when the stored record has a textEmbedding and an attempt that
\* succeeded only at colour writes, textEmbedding is what it was and
\* colorVector and isColorful are the attempt's; when an attempt that
\* succeeded only at text writes, the four colour fields are what they were.
C6_MergeNonRegression ==
  [][\A a \in Attempts :
       (WriteStep(a) /\ newPlace[a].id \in DOMAIN store) =>
         LET old == store[newPlace[a].id]
             new == store'[newPlace[a].id]
         IN /\ (colorRes[a].value.ok /\ ~textRes[a].value.ok) =>
                 /\ new.textEmbedding = old.textEmbedding
                 /\ new.colorVector = colorRes[a].value.colorVector
                 /\ new.colorVector # <<>>
                 /\ new.isColorful = colorRes[a].value.isColorful
                 /\ new.isColorful # "null"
            /\ (~colorRes[a].value.ok /\ textRes[a].value.ok) =>
                 /\ \A f \in ColorKeys : new[f] = old[f]
                 /\ new.textEmbedding = textRes[a].value.vector]_vars

\* A colour-only attempt has written over the record that held <<4, 3>>.
C6_Witness ==
  \E a \in Attempts :
    /\ Occurs(events[a], "write") /\ colorRes[a].value.ok /\ ~textRes[a].value.ok
    /\ store[RetryId].textEmbedding = <<4, 3>>
    /\ store[RetryId].colorAnalyzedAt = a
    /\ store[RetryId].colorVector = colorRes[a].value.colorVector

Present(doc, f) ==
  IF f = "isColorful" THEN doc[f] # "null"
  ELSE IF f = "colorAnalyzedAt" THEN doc[f] # 0
  ELSE doc[f] # <<>>

\* C7: with several attempts for one place running concurrently, no step
\* takes a feature field from present to absent, and each write leaves every
\* field it includes at the written value and every other field untouched
\* (so a field always holds the value of the last write that included it).
C7_ConcurrentAttemptsMerge ==
  [][/\ \A id \in DOMAIN store :
          /\ id \in DOMAIN store'
          /\ \A f \in FeatureFields : Present(store[id], f) => Present(store'[id], f)
     /\ \A a \in Attempts :
          (WriteStep(a) /\ newPlace[a].id \in DOMAIN store) =>
            \A f \in FeatureFields :
              store'[newPlace[a].id][f] =
                IF f \notin DOMAIN updates[a] THEN store[newPlace[a].id][f]
                ELSE IF f = "colorPalette" THEN CastPalette(updates[a][f])
                ELSE updates[a][f]]_vars

\* Two attempts have written: the colour fields are those of the one, the
\* embedding that of the other.
C7_Witness ==
  \E a, b \in Attempts :
    /\ a # b /\ Occurs(events[a], "write") /\ Occurs(events[b], "write")
    /\ colorRes[a].value.ok /\ ~textRes[a].value.ok
    /\ colorRes[b].value.ok /\ textRes[b].value.ok
    /\ store[RetryId].colorAnalyzedAt = a
    /\ store[RetryId].isColorful = colorRes[a].value.isColorful
    /\ store[RetryId].textEmbedding = textRes[b].value.vector

\* A step of job j or of one of its two external calls.
JobStep(j) ==
  \/ \E palette \in Palettes : PaletteReply(j, palette)
  \/ PaletteError(j)
  \/ PaletteHang(j)
  \/ \E vector \in Embeddings : EmbeddingReply(j, vector)
  \/ EmbeddingError(j)
  \/ EmbeddingHang(j)
  \/ (j \in Places /\ EnrichJoin(j))
  \/ (j \in Searches /\ SearchJoin(j))

\* C8: the external calls are bounded, a call that got no reply ends like a
\* failed one; so an enrichment or a search that waits for its extractions
\* can always take a further step, also when a collaborator never replies.
C8_WaitIsBounded ==
  /\ \A p \in Places : enrichPc[p] = "awaiting" => ENABLED JobStep(p)
  /\ \A s \in Searches : searchPc[s] = "awaiting" => ENABLED JobStep(s)

\* C9: a search whose query gave neither colour data nor a text embedding
\* (both failed, or colour failed and no queryText was sent) ends with the 422
\* error; Place.find is never issued, nothing is scored or returned; a 200
\* response, empty list included, is only ever given when some signal exists.
C9_NoSignal422 ==
  \A s \in Searches :
    /\ (Joined(s) /\ ~colorRes[s].value.ok /\ ~textRes[s].value.ok) =>
         /\ searchPc[s] = "done" /\ searchResp[s].code = 422
         /\ ~Occurs(events[s], "find") /\ ~Occurs(events[s], "findErr")
         /\ candidates[s] = <<>> /\ searchResp[s].results = <<>>
    /\ (Joined(s) /\ query[s].queryText = "" /\ ~colorRes[s].value.ok) =>
         searchResp[s].code = 422
    /\ searchResp[s].code = 200 => colorRes[s].value.ok \/ textRes[s].value.ok

C9_Witness ==
  \E s \in Searches :
    /\ searchResp[s].code = 422 /\ query[s].queryText # ""
    /\ ~colorRes[s].value.ok /\ ~textRes[s].value.ok

\* C10: every place a search scores has a non-empty colorVector or a
\* non-empty textEmbedding, every place it returns is one of those, and a
\* stored place with neither is in no result list, whatever the threshold.
C10_CandidatesHaveVector ==
  \A s \in Searches :
    /\ \A i \in 1..Len(candidates[s]) :
         candidates[s][i].colorVector # <<>> \/ candidates[s][i].textEmbedding # <<>>
    /\ \A i \in 1..Len(searchResp[s].results) :
         \E k \in 1..Len(candidates[s]) :
           /\ candidates[s][k].id = searchResp[s].results[i].id
           /\ (candidates[s][k].colorVector # <<>>
                 \/ candidates[s][k].textEmbedding # <<>>)

C10_Witness ==
  \E s \in Searches :
    /\ searchResp[s].code = 200 /\ query[s].threshold = 0 /\ query[s].userId = ""
    /\ Len(searchResp[s].results) > 0 /\ Len(searchResp[s].results) < query[s].limit
    /\ \E id \in DOMAIN store :
         store[id].colorVector = <<>> /\ store[id].textEmbedding = <<>>

\* A search that answered with a result list.
Answered(s) == searchPc[s] = "done" /\ searchResp[s].code = 200

\* The candidate of search s a result entry stands for, and its position in
\* the sequence Place.find returned.
CandIndex(s, id) == CHOOSE i \in 1..Len(candidates[s]) : candidates[s][i].id = id
CandOf(s, r) == candidates[s][CandIndex(s, r.id)]

\* The score the scoring rule gives candidate c in search s, in 1/1000000:
\* colorWeight * colorCosine when query and candidate both have a colour
\* vector, plus textWeight * textCosine when both have a text embedding.
RuleScore(s, c) ==
  LET qc == colorRes[s].value
      qt == textRes[s].value
      cw == IF qc.isColorful = "true" THEN 600 ELSE IF qc.isColorful = "false" THEN 200 ELSE 0
      colorTerm == IF qc.ok /\ c.colorVector # <<>>
                   THEN cw * cosineSimilarity(qc.colorVector, c.colorVector) ELSE 0
      textTerm == IF qt.ok /\ c.textEmbedding # <<>>
                  THEN (1000 - cw) * cosineSimilarity(qt.vector, c.textEmbedding) ELSE 0
  IN colorTerm + textTerm

\* The ids of the candidates of s that reach the threshold.
KeptIds(s) ==
  {candidates[s][i].id : i \in {k \in 1..Len(candidates[s]) :
      RuleScore(s, candidates[s][k]) >= query[s].threshold * 1000}}

ResultIds(s) == {searchResp[s].results[i].id : i \in 1..Len(searchResp[s].results)}

\* C11: a search that reaches Place.find answers 200 whatever the scores are;
\* every returned place scores at least the threshold, a candidate whose
\* score equals the threshold is kept, and when the limit does not cut the
\* list the returned places are exactly the candidates that are not strictly
\* below the threshold (none of them: an empty list, still a 200).
C11_ThresholdFilter ==
  \A s \in SearchJobs :
    /\ Occurs(events[s], "find") => Answered(s)
    /\ Answered(s) =>
         /\ ResultIds(s) \subseteq KeptIds(s)
         /\ query[s].limit >= Len(candidates[s]) => ResultIds(s) = KeptIds(s)
         /\ KeptIds(s) = {} => searchResp[s].results = <<>> /\ searchResp[s].meta.total = 0

\* One search returned a place whose score equals its threshold 0.96, the
\* other, with threshold 0.9 and candidates that all score lower, answered
\* 200 with an empty list.
C11_Witness ==
  \E s, t \in SearchJobs :
    /\ Answered(s) /\ query[s].threshold = 960
    /\ \E i \in 1..Len(searchResp[s].results) :
         RuleScore(s, CandOf(s, searchResp[s].results[i])) = 960 * 1000
    /\ Answered(t) /\ query[t].threshold = 900
    /\ Len(candidates[t]) > 0 /\ searchResp[t].results = <<>>
    /\ \E i \in 1..Len(candidates[t]) : RuleScore(t, candidates[t][i]) > 0

\* The score of the i-th result of s and the place of its candidate in the
\* sequence Place.find returned.
ResultScore(s, i) == RuleScore(s, CandOf(s, searchResp[s].results[i]))
ResultRank(s, i) == CandIndex(s, searchResp[s].results[i].id)

\* C12: in every result list the scores do not increase, and two results
\* with the same score stand in the order their candidates had in the
\* sequence the place store returned.
C12_SortedStable ==
  \A s \in SearchJobs :
    Answered(s) =>
      \A i, j \in 1..Len(searchResp[s].results) :
        i < j =>
          /\ ResultScore(s, i) >= ResultScore(s, j)
          /\ ResultScore(s, i) = ResultScore(s, j) => ResultRank(s, i) < ResultRank(s, j)

\* A list in which the sort moved a later candidate in front of an earlier
\* one and left two candidates of equal score in their order.
C12_Witness ==
  \E s \in SearchJobs :
    /\ Answered(s)
    /\ \E i, j \in 1..Len(searchResp[s].results) :
         i < j /\ ResultScore(s, i) > ResultScore(s, j) /\ ResultRank(s, i) > ResultRank(s, j)
    /\ \E i, j \in 1..Len(searchResp[s].results) :
         i < j /\ ResultScore(s, i) = ResultScore(s, j) /\ ResultRank(s, i) < ResultRank(s, j)

\* The result list of s is a prefix of the filtered, sorted candidates that
\* is cut only by the limit: a left-out candidate that reaches the threshold
\* means the list is full, and it scores no higher than any returned place.
CutOnlyByLimit(s) ==
  \A id \in KeptIds(s) \ ResultIds(s) :
    /\ Len(searchResp[s].results) = query[s].limit
    /\ \A i \in 1..Len(searchResp[s].results) :
         ResultScore(s, i) >= RuleScore(s, candidates[s][CandIndex(s, id)])

\* C13: a result list has at most `limit` entries and is the first `limit`
\* entries of the filtered, sorted candidates, for every limit a caller sends.
C13_LimitIsCap ==
  \A s \in SearchJobs :
    Answered(s) =>
      /\ Len(searchResp[s].results) <= query[s].limit
      /\ CutOnlyByLimit(s)

\* The same for the limits that are natural numbers.
C13_NaturalLimitIsCap ==
  \A s \in SearchJobs :
    (Answered(s) /\ query[s].limit >= 0) =>
      /\ Len(searchResp[s].results) <= query[s].limit
      /\ CutOnlyByLimit(s)

\* A list that the limit cut: candidates that reach the threshold are left out.
C13_CutWitness ==
  \E s \in SearchJobs :
    /\ Answered(s) /\ query[s].limit > 0
    /\ Len(searchResp[s].results) = query[s].limit
    /\ KeptIds(s) \ ResultIds(s) # {}

\* The fields of a place a result entry shows, and the fields of meta.
SummaryFields == {"id", "title", "description", "address", "image", "coordinates",
                  "colorPalette", "isColorful", "creatorId"}
MetaFields == {"total", "queryIsColorful", "weightsUsed", "queryPalette"}

\* C14: no response of a search holds a raw vector: a result entry has the
\* summary fields of its place, similarityScore and scoreBreakdown (two
\* cosines and the weights) and neither colorVector nor textEmbedding; meta
\* has the count, queryIsColorful, the weights and the hex strings of the
\* query palette, nothing of the query's colour vector or embedding.
C14_NoVectorInResponse ==
  \A s \in SearchJobs :
    /\ \A i \in 1..Len(searchResp[s].results) :
         LET r == searchResp[s].results[i]
         IN /\ DOMAIN r = SummaryFields \cup {"similarityScore", "scoreBreakdown"}
            /\ DOMAIN r \cap {"colorVector", "textEmbedding"} = {}
            /\ DOMAIN r.scoreBreakdown = {"color", "text", "weights"}
            /\ r.scoreBreakdown.color \in Int /\ r.scoreBreakdown.text \in Int
            /\ r.similarityScore \in Int
            /\ \A f \in SummaryFields : r[f] = CandOf(s, r)[f]
    /\ DOMAIN searchResp[s].meta = MetaFields
    /\ searchResp[s].meta.total = Len(searchResp[s].results)
    /\ Answered(s) =>
         /\ Len(searchResp[s].meta.queryPalette) = Len(colorRes[s].value.colorPalette)
         /\ \A i \in 1..Len(searchResp[s].meta.queryPalette) :
              searchResp[s].meta.queryPalette[i] = colorRes[s].value.colorPalette[i].hex

\* A response to a query that had a colour vector and an embedding, with
\* results whose places have stored vectors.
C14_Witness ==
  \E s \in SearchJobs :
    /\ Answered(s) /\ colorRes[s].value.ok /\ textRes[s].value.ok
    /\ Len(searchResp[s].meta.queryPalette) > 0
    /\ \E i \in 1..Len(searchResp[s].results) :
         LET c == CandOf(s, searchResp[s].results[i])
         IN c.colorVector # <<>> /\ c.textEmbedding # <<>>

TriState == {"true", "false", "null"}

\* The score and breakdown searchByColor gives place c in search s, with the
\* weights of the response.
Scored(s, c) ==
  LET sc == ScoreCandidate(c, colorRes[s].value, textRes[s].value,
                           searchResp[s].meta.weightsUsed)
  IN [score |-> sc.score, components |-> sc.components]

\* C15: the weights of a search follow from the query's isColorful alone:
\* every result shows the weight pair that belongs to the query's isColorful
\* (the same pair in all results and in meta), its score is the one computed
\* with that pair, and a candidate gets the same score and breakdown whatever
\* value its own stored isColorful has.
C15_WeightsFromQueryOnly ==
  \A s \in SearchJobs :
    Answered(s) =>
      LET qw == adaptiveWeights(colorRes[s].value.isColorful)
      IN /\ searchResp[s].meta.weightsUsed = qw
         /\ \A i \in 1..Len(searchResp[s].results) :
              LET r == searchResp[s].results[i]
              IN /\ r.scoreBreakdown.weights = qw
                 /\ r.similarityScore = Round3(RuleScore(s, CandOf(s, r)))
                 /\ \A v \in TriState :
                      LET other == Scored(s, [CandOf(s, r) EXCEPT !.isColorful = v])
                      IN /\ Round3(other.score) = r.similarityScore
                         /\ other.components.color = r.scoreBreakdown.color
                         /\ other.components.text = r.scoreBreakdown.text

\* A colourful query (0.6/0.4) that returned a place stored as not colourful
\* and a place stored as colourful, both with a colour share in their score.
C15_Witness ==
  \E s \in SearchJobs :
    /\ Answered(s) /\ colorRes[s].value.isColorful = "true"
    /\ \E i, j \in 1..Len(searchResp[s].results) :
         /\ searchResp[s].results[i].isColorful = "false"
         /\ searchResp[s].results[j].isColorful = "true"
         /\ searchResp[s].results[i].scoreBreakdown.color > 0
         /\ searchResp[s].results[j].scoreBreakdown.color > 0

\* C16: adaptiveWeights gives (0.6, 0.4) for true, (0.2, 0.8) for false and
\* (0.0, 1.0) for null; the two weights always sum to 1.0; and these are the
\* weights a search reports for the isColorful of its query.
C16_AdaptiveWeightsTable ==
  /\ adaptiveWeights("true") = [colorWeight |-> 600, textWeight |-> 400]
  /\ adaptiveWeights("false") = [colorWeight |-> 200, textWeight |-> 800]
  /\ adaptiveWeights("null") = [colorWeight |-> 0, textWeight |-> 1000]
  /\ \A v \in TriState :
       adaptiveWeights(v).colorWeight + adaptiveWeights(v).textWeight = 1000
  /\ \A s \in SearchJobs :
       Answered(s) =>
         LET mw == searchResp[s].meta.weightsUsed
             qi == searchResp[s].meta.queryIsColorful
         IN /\ qi = colorRes[s].value.isColorful
            /\ mw.colorWeight + mw.textWeight = 1000
            /\ mw.colorWeight = (CASE qi = "true" -> 600 [] qi = "false" -> 200
                                   [] OTHER -> 0)

\* Searches with a muted and with a colourful query image have answered, with
\* the weights of their rows.
C16_Witness ==
  \E s, t \in SearchJobs :
    /\ Answered(s) /\ searchResp[s].meta.queryIsColorful = "false"
    /\ searchResp[s].meta.weightsUsed = [colorWeight |-> 200, textWeight |-> 800]
    /\ Answered(t) /\ searchResp[t].meta.queryIsColorful = "true"
    /\ searchResp[t].meta.weightsUsed = [colorWeight |-> 600, textWeight |-> 400]

\* C17: for every candidate of a search the computed score is
\* colorWeight * colorCosine + textWeight * textCosine, a term counting only
\* when query and candidate both have that vector and being exactly 0
\* otherwise; the results show this score (rounded to 3 decimals) and these
\* terms; a colourful query without embedding gives a candidate that has only
\* a text embedding the score 0, and a positive threshold filters it out.
C17_ScoreFormula ==
  \A s \in SearchJobs :
    Answered(s) =>
      /\ \A i \in 1..Len(candidates[s]) :
           LET c == candidates[s][i]
               sc == Scored(s, c)
               qc == colorRes[s].value
               qt == textRes[s].value
           IN /\ sc.score = RuleScore(s, c)
              /\ (~qc.ok \/ c.colorVector = <<>>) => sc.components.color = 0
              /\ (~qt.ok \/ c.textEmbedding = <<>>) => sc.components.text = 0
              /\ (~qc.ok \/ c.colorVector = <<>>) /\ (~qt.ok \/ c.textEmbedding = <<>>)
                   => sc.score = 0
              /\ (qc.isColorful = "true" /\ ~qt.ok /\ c.colorVector = <<>>
                    /\ c.textEmbedding # <<>>) =>
                   /\ sc.score = 0
                   /\ query[s].threshold > 0 => c.id \notin ResultIds(s)
      /\ \A i \in 1..Len(searchResp[s].results) :
           LET r == searchResp[s].results[i]
               sc == Scored(s, CandOf(s, r))
           IN /\ r.similarityScore = Round3(RuleScore(s, CandOf(s, r)))
              /\ r.scoreBreakdown.color = sc.components.color
              /\ r.scoreBreakdown.text = sc.components.text

\* A colourful query without embedding, threshold 0.4: the text-only place
\* 203 was a candidate and is not in the non-empty result list.
C17_Witness ==
  \E s \in SearchJobs :
    /\ Answered(s) /\ colorRes[s].value.isColorful = "true" /\ ~textRes[s].value.ok
    /\ query[s].threshold = 400 /\ Len(searchResp[s].results) > 0
    /\ \E i \in 1..Len(candidates[s]) :
         /\ candidates[s][i].colorVector = <<>> /\ candidates[s][i].textEmbedding # <<>>
         /\ candidates[s][i].id \notin ResultIds(s)

\* C18: the score searchByColor computes for a candidate lies in [0, 1], and
\* so does every similarityScore it returns.
C18_ScoreInUnitRange ==
  \A s \in SearchJobs :
    Answered(s) =>
      /\ \A i \in 1..Len(candidates[s]) :
           Scored(s, candidates[s][i]).score \in 0..(1000 * 1000)
      /\ \A i \in 1..Len(searchResp[s].results) :
           searchResp[s].results[i].similarityScore \in 0..1000

\* What holds instead: the scores lie in [-1, 1].
C18_ScoreInCosineRange ==
  \A s \in SearchJobs :
    Answered(s) =>
      /\ \A i \in 1..Len(candidates[s]) :
           Scored(s, candidates[s][i]).score \in (-(1000 * 1000))..(1000 * 1000)
      /\ \A i \in 1..Len(searchResp[s].results) :
           searchResp[s].results[i].similarityScore \in (-1000)..1000

\* A response that shows a negative similarityScore.
C18_NegativeReturned ==
  \E s \in SearchJobs :
    /\ Answered(s)
    /\ \E i \in 1..Len(searchResp[s].results) : searchResp[s].results[i].similarityScore < 0

\* C19: the write of an enrichment changes nothing but the five feature
\* fields of its own place: the place's id, title, description, address,
\* coordinates, image and creatorId are after the write what they were before
\* it, every other stored place is untouched, no place is added or removed;
\* and no other step of the enrichment changes the collection at all.
C19_WriteFrame ==
  [][\A p \in Places :
       /\ WriteStep(p) =>
            /\ DOMAIN store' = DOMAIN store
            /\ \A id \in DOMAIN store :
                 /\ id # newPlace[p].id => store'[id] = store[id]
                 /\ \A f \in DOMAIN store[id] \ FeatureFields : store'[id][f] = store[id][f]
            /\ newPlace[p].id \in DOMAIN store =>
                 \A f \in FeatureFields \ DOMAIN updates[p] :
                   store'[newPlace[p].id][f] = store[newPlace[p].id][f]
       /\ (EnrichmentStep(p) /\ ~WriteStep(p)) => store' = store]_vars

\* A write has changed feature fields of the created place, next to the
\* places that were stored before.
C19_Witness ==
  \E p \in Places :
    /\ Occurs(events[p], "write") /\ p \in DOMAIN store
    /\ store[p].colorVector # <<>> /\ store[p].textEmbedding # <<>>
    /\ \A f \in CreationFields : store[p][f] = newPlace[p][f]
    /\ \A id \in SeedIds : store[id] = SeedStore[id]

\* A step of search request s or of one of its two extractions.
SearchStep(s) ==
  \/ searchPc'[s] # searchPc[s]
  \/ colorRes'[s] # colorRes[s]
  \/ textRes'[s] # textRes[s]
  \/ searchResp'[s] # searchResp[s]

\* C20: no step of a search request writes to the place store: the
\* collection, and with it the feature record of every place, is after the
\* step what it was before, also while another search is under way; the
\* query's colour data and embedding are kept nowhere but in the request.
C20_SearchNeverWrites ==
  [][\A s \in SearchJobs :
       SearchStep(s) =>
         /\ store' = store
         /\ \A id \in DOMAIN store :
              \A f \in FeatureFields : store'[id][f] = store[id][f]]_vars

\* Two searches that ran side by side have both returned results, and the
\* collection is one of the initial ones.
C20_Witness ==
  /\ \A s \in SearchJobs :
       Answered(s) /\ colorRes[s].value.ok /\ Len(searchResp[s].results) > 0
  /\ store \in SearchStores
  /\ query[101] # query[102]

\* C21: in every reachable state of the collection, a place whose stored
\* isColorful is true has a non-empty palette and a colorVector of exactly
\* 3 * VECTOR_SIZE = 15 entries.
C21_ColorfulHasPaletteAndVector ==
  \A id \in DOMAIN store :
    store[id].isColorful = "true" =>
      /\ store[id].colorPalette # <<>>
      /\ Len(store[id].colorVector) = 3 * VECTOR_SIZE

\* An enrichment wrote isColorful = true for a place with a palette of fewer
\* than five swatches (the vector is padded) and for one with five.
C21_Witness ==
  /\ \A j \in ColorJobs : Occurs(events[j], "write") /\ store[j].isColorful = "true"
  /\ Len(store[301].colorPalette) = 2
  /\ Len(store[302].colorPalette) = 5

\* C22: the stored timestamp of the extraction (colorAnalyzedAt) is absent
\* iff no extraction ever succeeded for the place: once an attempt in which
\* the colour or the text extraction succeeded has been written, the
\* timestamp is present; before that it is absent.
C22_TimestampIffExtracted ==
  \A j \in DOMAIN enrichPc :
    newPlace[j].id \in DOMAIN store =>
      (store[newPlace[j].id].colorAnalyzedAt = 0 <=> ~Occurs(events[j], "write"))

\* What the code does keep: the timestamp is present iff the colour keys
\* were written, whatever the text extraction did.
C22_TimestampIffColour ==
  \A j \in DOMAIN enrichPc :
    newPlace[j].id \in DOMAIN store =>
      (store[newPlace[j].id].colorAnalyzedAt = 0
         <=> ~(Occurs(events[j], "write") /\ "colorAnalyzedAt" \in DOMAIN updates[j]))

\* The text extraction alone succeeded and was written.
C22_TextOnlyWritten ==
  \E j \in DOMAIN enrichPc :
    /\ Occurs(events[j], "write")
    /\ newPlace[j].id \in DOMAIN store
    /\ store[newPlace[j].id].textEmbedding # <<>>
    /\ store[newPlace[j].id].colorAnalyzedAt = 0

\* The triple [L/100, (a+128)/255, (b+128)/255] of a Lab colour, in 1/Scale.
NormLab(lab) ==
  << (lab[1] * Scale) \div 10000, ((lab[2] + 12800) * Scale) \div 25500,
     ((lab[3] + 12800) * Scale) \div 25500 >>

GrayTriple == NormLab(GRAY_LAB)

\* v is the vector of the swatches with the Lab colours labs: the triples of
\* the first five in order, then gray triples; fifteen entries, each in [0,1].
IsVectorOf(v, labs) ==
  /\ Len(v) = 15
  /\ \A k \in 1..15 : v[k] >= 0 /\ v[k] <= Scale
  /\ \A i \in 1..5 :
       SubSeq(v, 3 * i - 2, 3 * i) = IF i <= Len(labs) THEN NormLab(labs[i]) ELSE GrayTriple

\* The swatches node-vibrant found in an image, in slot order.
Found(image) == SelectSeq(Vibrant(image), LAMBDA s : s # NoSwatch)

\* C23: buildColorVector returns the normalized triples of the first
\* min(n, 5) swatches in input order, followed by 5 - min(n, 5) gray triples:
\* 15 entries, each in [0,1]. This holds for every vector analyzeImageColor
\* returned (n in 1..5), for the empty list and for the lists of n = 0..6
\* swatches found in the images; for n = 3 the last six values are the gray
\* triple twice.
C23_VectorShape ==
  /\ \A j \in DOMAIN colorRes :
       Settles(colorRes[j]) /\ colorRes[j].value.ok =>
         LET v == colorRes[j].value
             labs == [i \in 1..Len(v.colorPalette) |-> v.colorPalette[i].lab]
         IN /\ IsVectorOf(v.colorVector, labs)
            /\ Len(labs) = 3 =>
                 SubSeq(v.colorVector, 10, 15) = GrayTriple \o GrayTriple
  /\ \A image \in Images :
       IsVectorOf(buildColorVector(Found(image)),
                  [i \in 1..Len(Found(image)) |-> rgbToLab(Found(image)[i].rgb)])

\* analyzeImageColor returned the vector of a palette of three swatches.
C23_Witness ==
  \E j \in ColorJobs :
    /\ Settles(colorRes[j]) /\ colorRes[j].value.ok
    /\ Len(colorRes[j].value.colorPalette) = 3
    /\ SubSeq(colorRes[j].value.colorVector, 10, 15) = GrayTriple \o GrayTriple
    /\ SubSeq(colorRes[j].value.colorVector, 1, 3) = NormLab(rgbToLab(<<0, 0, 255>>))

\* The population variance of the entries of v, in 1/Scale^2.
Variance(v) ==
  LET mean == SumSeq(v) \div Len(v)
  IN SumSeq([i \in 1..Len(v) |-> (v[i] - mean) * (v[i] - mean)]) \div Len(v)

C24_LowSpreadAndColorful ==
  /\ Settles(colorRes[301]) /\ colorRes[301].value.ok
  /\ Len(colorRes[301].value.colorPalette) >= 2
  /\ colorRes[301].value.colorPalette[1].population >= MinPopulation
  /\ colorRes[301].value.isColorful = "false"
  /\ Settles(colorRes[302]) /\ colorRes[302].value.ok
  /\ colorRes[302].value.colorPalette[1].population = MinPopulation
  /\ colorRes[302].value.isColorful = "true"

\* The hex and population of the entries of a palette, as a set.
SwatchSet(s) == {<<s[i].hex, s[i].population>> : i \in 1..Len(s)}

\* C25: extractPalette returns the non-null slots sorted by population in
\* non-increasing order and truncated to five: 1..5 entries, each one a slot
\* of the image, none of the discarded slots with a larger population than a
\* kept one; when the extractor failed or no slot is filled it returns null,
\* never an empty palette.
C25_PaletteShape ==
  /\ \A j \in DOMAIN colorRes \cap ColorJobs :
       Settles(colorRes[j]) =>
         LET v == colorRes[j].value
             pal == v.colorPalette
             found == Found(newPlace[j].image)
         IN IF v.ok
            THEN /\ Len(pal) >= 1 /\ Len(pal) <= 5
                 /\ Len(pal) = IF Len(found) < 5 THEN Len(found) ELSE 5
                 /\ \A i \in 1..(Len(pal) - 1) : pal[i].population >= pal[i + 1].population
                 /\ SwatchSet(pal) \subseteq SwatchSet(found)
                 /\ Cardinality(SwatchSet(pal)) = Len(pal)
                 /\ \A d \in SwatchSet(found) \ SwatchSet(pal) :
                      \A i \in 1..Len(pal) : d[2] <= pal[i].population
            ELSE pal = <<>> /\ v = NoColorData
  /\ \A image \in Images : (extractPalette(Vibrant(image)) = <<>>) <=> (Found(image) = <<>>)

\* A palette of five came out of six filled slots, the slot with the smallest
\* population dropped although it is not the last slot.
C25_Witness ==
  \E j \in ColorJobs :
    /\ Settles(colorRes[j]) /\ colorRes[j].value.ok
    /\ Len(Found(newPlace[j].image)) = 6
    /\ Len(colorRes[j].value.colorPalette) = 5
    /\ colorRes[j].value.colorPalette[1].population = 600
    /\ <<"#787878", 50>> \notin SwatchSet(colorRes[j].value.colorPalette)

IsZero(v) == \A i \in 1..Len(v) : v[i] = 0

\* c is a legitimate cosine of a and b: 0 when a vector is absent, when the
\* lengths differ or when a magnitude is 0; else within [-1, 1], and 1 for a
\* vector with itself.
CosineLaw(a, b, c) ==
  IF a = <<>> \/ b = <<>> \/ Len(a) # Len(b) \/ IsZero(a) \/ IsZero(b)
  THEN c = 0
  ELSE /\ c >= -1000 /\ c <= 1000
       /\ a = b => c = 1000

C26_ZeroVectorScored ==
  \E s \in DOMAIN searchPc :
    /\ Answered(s) /\ Len(searchResp[s].results) = 1
    /\ textRes[s].value.vector = <<3, 4>> /\ candidates[s][1].textEmbedding = <<0, 0>>
    /\ searchResp[s].results[1].scoreBreakdown.text = 0

C26_LengthMismatchScored ==
  \E s \in DOMAIN searchPc :
    /\ Answered(s) /\ Len(searchResp[s].results) = 1
    /\ textRes[s].value.vector = <<3, 4>> /\ candidates[s][1].textEmbedding = <<2, 3, 6>>
    /\ searchResp[s].results[1].scoreBreakdown.text = 0

C26_OppositeScored ==
  \E s \in DOMAIN searchPc :
    /\ Answered(s) /\ Len(searchResp[s].results) = 1
    /\ textRes[s].value.vector = <<-3, -4>> /\ candidates[s][1].textEmbedding = <<3, 4>>
    /\ searchResp[s].results[1].scoreBreakdown.text = -1000

\* A createPlace request that ended without committing its place.
Failed(p) == createPc[p] = "done" /\ createResp[p] # 201

\* C27: a createPlace that fails before the commit (invalid input, geocoder
\* failure, creator not found, transaction throwing) hands an HttpError to
\* next, so the caller gets an error response (422, the geocoder's code, 404
\* or 500) and the handler's promise does not reject; no 201 is sent, the
\* place is not stored and no enrichment is ever scheduled.
C27_FailureAnswered ==
  \A p \in DOMAIN createPc :
    Failed(p) =>
      /\ createResp[p] \in {422, 404, 500}
      /\ <<"createPlace", p>> \notin rejected
      /\ enrichPc[p] = "none" /\ events[p] = <<>>
      /\ p \notin DOMAIN store

\* What holds of every failure, the throwing transaction included: no 201,
\* nothing stored, no enrichment.
C27_FailureNeverEnriches ==
  \A p \in DOMAIN createPc :
    Failed(p) => enrichPc[p] = "none" /\ events[p] = <<>> /\ p \notin DOMAIN store

\* The failures that do reach next(HttpError) are answered.
C27_HandledFailureAnswered ==
  \A p \in DOMAIN createPc :
    Failed(p) /\ <<"createPlace", p>> \notin rejected => createResp[p] \in {422, 404, 500}

\* The transaction threw and the request was never answered.
C27_SaveFailureUnanswered ==
  \E p \in DOMAIN createPc :
    Failed(p) /\ <<"createPlace", p>> \in rejected /\ createResp[p] = 0

\* C28: when a place was deleted after its 201 and before the write of its
\* enrichment, the late write neither brings the place back nor stores any
\* feature (the collection is left as it is), the place stays absent for
\* ever, and the callback ends without an error surfacing.
C28_LateWriteAfterDelete ==
  [][\A p \in DOMAIN enrichPc :
       (createResp[p] = 201 /\ newPlace[p].id \notin DOMAIN store) =>
         /\ newPlace[p].id \notin DOMAIN store'
         /\ WriteStep(p) => /\ store' = store
                            /\ rejected' = rejected
                            /\ enrichPc'[p] = "done"]_vars

\* The write of the enrichment of a deleted place was executed.
C28_Witness ==
  \E p \in DOMAIN enrichPc :
    /\ createResp[p] = 201 /\ newPlace[p].id \notin DOMAIN store
    /\ Occurs(events[p], "write") /\ DOMAIN updates[p] # {}
    /\ enrichPc[p] = "done" /\ rejected = {}

\* C29: updatePlaceById and the write of the enrichment of the same place,
\* in whatever order they interleave, lose neither update: once the PATCH is
\* answered 200 and the write is executed, the stored place has the new
\* title and description and every feature the enrichment wrote; and no step
\* of updatePlaceById changes colorPalette, colorVector, isColorful,
\* colorAnalyzedAt or textEmbedding of any stored place.
C29_NoLostUpdate ==
  /\ [](\A u \in DOMAIN updatePc :
          LET id == updateBody[u].placeId
          IN (updateResp[u] = 200 /\ id \in DOMAIN store) =>
               /\ store[id].title = updateBody[u].title
               /\ store[id].description = updateBody[u].description
               /\ \A a \in DOMAIN enrichPc :
                    (newPlace[a].id = id /\ Occurs(events[a], "write")) =>
                      \A k \in DOMAIN updates[a] :
                        store[id][k] = ApplySet(NoPlace, updates[a])[k])
  /\ [][updatePc' # updatePc =>
          /\ DOMAIN store' = DOMAIN store
          /\ \A id \in DOMAIN store : \A k \in FeatureFields :
               store'[id][k] = store[id][k]]_vars

\* The PATCH loaded the place before the enrichment wrote and saved after
\* it: both the new title and the features are stored.
C29_Witness ==
  \E u \in DOMAIN updatePc :
    LET id == updateBody[u].placeId
    IN /\ updateResp[u] = 200 /\ id \in DOMAIN store
       /\ updatedPlace[u].colorVector = <<>> /\ updatedPlace[u].textEmbedding = <<>>
       /\ store[id].title = "t2" /\ store[id].colorVector # <<>>
       /\ store[id].textEmbedding # <<>>

\* C30: when the query of a search has no text embedding (no queryText, or
\* the embedding failed), every candidate's score is at most colorWeight
\* times its colour cosine, hence at most colorWeight; so a query image that
\* is not colourful (colorWeight 0.2) gets, at the default threshold 0.4, a
\* 200 with an empty result list, whatever the candidates are.
C30_ColorOnlyScoreCap ==
  \A s \in SearchJobs :
    (Answered(s) /\ ~textRes[s].value.ok) =>
      LET w == searchResp[s].meta.weightsUsed
      IN /\ \A i \in 1..Len(candidates[s]) :
              LET c == candidates[s][i]
                  cos == cosineSimilarity(colorRes[s].value.colorVector, c.colorVector)
              IN /\ Scored(s, c).score <= w.colorWeight * cos
                 /\ w.colorWeight * cos <= w.colorWeight * 1000
         /\ (colorRes[s].value.isColorful = "false" /\ query[s].threshold = NoQuery.threshold) =>
              /\ w.colorWeight = 200
              /\ searchResp[s].code = 200
              /\ searchResp[s].results = <<>>
              /\ searchResp[s].meta.total = 0

\* A muted query without embedding at threshold 0.4 met a candidate whose
\* colour vector equals its own (cosine 1, score 0.2): the list is empty.
C30_Witness ==
  \E s \in SearchJobs :
    /\ Answered(s) /\ ~textRes[s].value.ok
    /\ colorRes[s].value.isColorful = "false" /\ query[s].threshold = 400
    /\ \E i \in 1..Len(candidates[s]) :
         /\ candidates[s][i].colorVector = colorRes[s].value.colorVector
         /\ Scored(s, candidates[s][i]).score = 200 * 1000
    /\ searchResp[s].results = <<>>

====
